---- MODULE Spec2Model ----
(***************************************************************************)
(* A model of OpenPNM's InvasionPercolation algorithm                     *)
(* (src/OpenPNM/Algorithms/__InvasionPercolation__.py).                   *)
(*                                                                         *)
(* Pores and throats are numbered from 0 as in the code, clusters from 1. *)
(* The per-cluster arrays of _cluster_data, _tlists and _tpoints are       *)
(* indexed by the cluster number (the code indexes them by number-1).      *)
(* Python lists are sequences, so list position k is sequence index k+1.   *)
(*                                                                         *)
(* Real-valued quantities are kept exact as integers in fixed units:       *)
(*   volumes and volume coefficients in units of pi/(12*PcLcm),            *)
(*   flow rates in units of inlet_flow,                                    *)
(*   times in units of 1/TimeScale,                                        *)
(*   saturations as numerators over v_total.                               *)
(***************************************************************************)
EXTENDS Integers, Sequences, FiniteSets, TLC

\* Capillary entry pressures are drawn from 1..MaxPc.
MaxPc == 2

(***************************************************************************)
(* The network (Graph Accessor): a 2 x 3 lattice of pores                  *)
(*        0 - 1 - 2                                                        *)
(*        |   |   |                                                        *)
(*        3 - 4 - 5                                                        *)
(* Conns[t+1] is the pair of pores throat t connects.                      *)
(***************************************************************************)
Conns == << <<0, 1>>, <<1, 2>>, <<3, 4>>, <<4, 5>>, <<0, 3>>, <<1, 4>>, <<2, 5>> >>

Throats == 0 .. (Len(Conns) - 1)

Pores == UNION { {Conns[k][1], Conns[k][2]} : k \in 1 .. Len(Conns) }

num_pores == Cardinality(Pores)

\* network.find_connected_pores(t)
find_connected_pores(t) == Conns[t + 1]

\* The ascending sequence of the elements of a finite set of integers.
RECURSIVE SortedSeq(_)
SortedSeq(S) ==
    IF S = {} THEN << >>
    ELSE LET m == CHOOSE x \in S : \A y \in S : x <= y
         IN  << m >> \o SortedSeq(S \ {m})

\* network.find_neighbor_throats(pores): the throats with an end in pores,
\* in ascending order.
find_neighbor_throats(pores) ==
    SortedSeq({ t \in Throats : \E k \in 1 .. 2 : find_connected_pores(t)[k] \in pores })

\* Geometry supplied by the collaborators.
ThroatDiameter == [t \in Throats |-> 1 + (t % 2)]
PoreVolumes    == [p \in Pores |-> 1 + (p % 2)]
ThroatVolumes  == [t \in Throats |-> t % 2]

RECURSIVE Lcm1(_, _)
Lcm1(n, acc) ==
    IF n <= 1 THEN acc
    ELSE LET m == CHOOSE k \in 1 .. n : (acc * k) % n = 0 /\ \A j \in 1 .. (k - 1) : (acc * j) % n # 0
         IN  Lcm1(n - 1, acc * m)

\* Least common multiple of 1..n.
Lcm(n) == Lcm1(n, 1)

PcLcm == Lcm(MaxPc)

RECURSIVE SumOver(_, _)
\* Sum of f[x] over the elements x of the sequence s (np.sum(f[s])).
SumOver(f, s) == IF s = << >> THEN 0 ELSE f[Head(s)] + SumOver(f, Tail(s))

SumSet(f, S) == SumOver(f, SortedSeq(S))

(***************************************************************************)
(* Coordinates and progress.  A centroid is kept as CoordScale times its   *)
(* coordinates, a distance as the square of CoordScale times the distance, *)
(* a percentage of completion in tenths of a percent.                      *)
(***************************************************************************)
\* network 'coords' of the lattice drawn above.
Coords == [p \in Pores |-> << p % 3, p \div 3, 0 >>]

\* Centroids are taken over one, two or three pores.
CoordScale == 6

\* np.average(coords[pores], 0)
centroid(pores) ==
    [k \in 1 .. 3 |->
        (SumSet([p \in Pores |-> Coords[p][k]], pores) * CoordScale) \div Cardinality(pores)]

\* dist_sqrd[0] + dist_sqrd[1] + dist_sqrd[2] for the scaled positions a and b
dist_sqrd(a, b) ==
    (a[1] - b[1]) * (a[1] - b[1]) + (a[2] - b[2]) * (a[2] - b[2])
        + (a[3] - b[3]) * (a[3] - b[3])

\* The float64 results of a division by zero: 0/0 and -x/0.
NaN == -2000000000
NegInf == -2000000001

\* np.round((initial - d) / initial * 100, decimals=1) for a distance d that
\* does not exceed initial: the nearest tenth, NaN or -inf when initial is 0.
percent_of_distance(initial, d) ==
    IF initial = 0 THEN (IF d = 0 THEN NaN ELSE NegInf)
    ELSE CHOOSE P \in 0 .. 1000 :
            /\ (1999 - 2 * P <= 0) \/ ((1999 - 2 * P) * (1999 - 2 * P) * initial <= 4000000 * d)
            /\ 4000000 * d <= (2001 - 2 * P) * (2001 - 2 * P) * initial

\* np.round(count / num_pores * 100, decimals=1)
percent_of_count(count) == (2000 * count + num_pores) \div (2 * num_pores)

\* x > y for floats, x possibly NaN or -inf
FloatGt(x, y) == x # NaN /\ x # NegInf /\ x > y

\* run(report=20)
report == 20

\* self._rough_increment
rough_increment == IF report = 0 THEN 100 ELSE report

(***************************************************************************)
(* heapq on lists of (pressure, throat) tuples.                            *)
(***************************************************************************)
\* Python's tuple comparison a < b.
TupleLt(a, b) == a[1] < b[1] \/ (a[1] = b[1] /\ a[2] < b[2])

RECURSIVE siftdown_loop(_, _, _, _)
siftdown_loop(heap, startpos, pos, newitem) ==
    IF pos > startpos /\ TupleLt(newitem, heap[pos \div 2])
    THEN siftdown_loop([heap EXCEPT ![pos] = heap[pos \div 2]], startpos, pos \div 2, newitem)
    ELSE [heap EXCEPT ![pos] = newitem]

\* heapq._siftdown(heap, startpos, pos)
siftdown(heap, startpos, pos) == siftdown_loop(heap, startpos, pos, heap[pos])

RECURSIVE siftup_loop(_, _, _, _)
siftup_loop(heap, startpos, pos, newitem) ==
    LET childpos == 2 * pos
        rightpos == childpos + 1
        c == IF rightpos <= Len(heap) /\ ~TupleLt(heap[childpos], heap[rightpos])
             THEN rightpos ELSE childpos
    IN  IF childpos <= Len(heap)
        THEN siftup_loop([heap EXCEPT ![pos] = heap[c]], startpos, c, newitem)
        ELSE siftdown([heap EXCEPT ![pos] = newitem], startpos, pos)

\* heapq._siftup(heap, pos)
siftup(heap, pos) == siftup_loop(heap, pos, pos, heap[pos])

\* heapq.heappush(heap, item): the new list.
heappush(heap, item) == siftdown(Append(heap, item), 1, Len(heap) + 1)

\* heapq.heappop(heap): the item returned.
heappop_item(heap) == heap[1]

\* heapq.heappop(heap): the list left.
heappop_rest(heap) ==
    LET lastelt == heap[Len(heap)]
        rest == SubSeq(heap, 1, Len(heap) - 1)
    IN  IF rest # << >> THEN siftup([rest EXCEPT ![1] = lastelt], 1) ELSE rest

RECURSIVE heapify_loop(_, _)
heapify_loop(x, i) == IF i < 1 THEN x ELSE heapify_loop(siftup(x, i), i - 1)

\* heapq.heapify(x)
heapify(x) == heapify_loop(x, Len(x) \div 2)

\* Mutant of heapq_merge: the second list is dropped.
heapq_merge_first_only(a, b) == a

RECURSIVE heapq_merge(_, _)
\* list(heapq.merge(a, b)): repeatedly the smaller of the two heads, a's on a tie.
heapq_merge(a, b) ==
    IF a = << >> THEN b
    ELSE IF b = << >> THEN a
    ELSE IF TupleLt(b[1], a[1]) THEN << b[1] >> \o heapq_merge(a, Tail(b))
    ELSE << a[1] >> \o heapq_merge(Tail(a), b)


(***************************************************************************)
(* State.  The first five variables are the arguments of run(); the rest   *)
(* are the attributes and arrays of the algorithm object.                  *)
(***************************************************************************)
VARIABLES
    Pc_assigned,            \* the invading phase has 'throat.capillary_pressure'
    Pc_entry,               \* phase['throat.capillary_pressure']
    inlets,                 \* sequence of inlet pore groups, one cluster each
    outlets,                \* set of outlet pores
    end_condition,          \* "breakthrough" or "total"
    timing,                 \* TRUE for timing = 'ON'
    pc,                     \* "setup", "running", "done" or "failed"
    pore_cluster_final,     \* self['pore.IP_cluster_final']
    pore_cluster_original,  \* self['pore.IP_cluster_original']
    throat_cluster_final,   \* self['throat.IP_cluster_final']
    pore_inv_seq,           \* self['pore.IP_inv_seq']
    throat_inv_seq,         \* self['throat.IP_inv_seq']
    pore_inv_time,          \* self['pore.IP_inv_time']
    throat_inv_time,        \* self['throat.IP_inv_time']
    pore_inv_sat,           \* self['pore.IP_inv_sat']
    throat_inv_sat,         \* self['throat.IP_inv_sat']
    cluster_data,           \* self._cluster_data
    tlists,                 \* self._tlists
    tpoints,                \* self._tpoints
    tseq,                   \* self._tseq
    pseq,                   \* self._pseq
    current_cluster,        \* self._current_cluster
    NewPore,                \* self._NewPore
    sim_time,               \* self._sim_time
    condition,              \* self._condition
    brkevent,               \* self._brkevent
    pore_invaded,           \* self['pore.invaded']
    throat_invaded,         \* self['throat.invaded']
    pore_defended,          \* self['pore.defended']
    throat_defended,        \* self['throat.defended']
    last_query,             \* the cutoff arguments of the last update_results
    inv_seq_log,            \* history: the sequence numbers written, in order
    initial_distance,       \* self._initial_distance (squared, scaled)
    current_distance,       \* self._current_distance (squared, scaled)
    percent_complete,       \* self._percent_complete, in tenths of a percent
    rough_complete,         \* self._rough_complete, in percent
    scan,                   \* the locals of the loop that cycles to the next
                            \* active cluster
    registry                \* the objects of a model: the lists _geometries,
                            \* _phases and _physics of the network

vars == << Pc_assigned, Pc_entry, inlets, outlets, end_condition, timing, pc,
           pore_cluster_final, pore_cluster_original, throat_cluster_final,
           pore_inv_seq, throat_inv_seq, pore_inv_time, throat_inv_time,
           pore_inv_sat, throat_inv_sat, cluster_data, tlists, tpoints,
           tseq, pseq, current_cluster, NewPore, sim_time, condition, brkevent,
           pore_invaded, throat_invaded, pore_defended, throat_defended,
           last_query, inv_seq_log,
           initial_distance, current_distance, percent_complete, rough_complete,
           scan, registry >>

\* The algorithm object as a record.
Self ==
    [ Pc_entry |-> Pc_entry, inlets |-> inlets, outlets |-> outlets,
      end_condition |-> end_condition, timing |-> timing,
      pore_cluster_final |-> pore_cluster_final,
      pore_cluster_original |-> pore_cluster_original,
      throat_cluster_final |-> throat_cluster_final,
      pore_inv_seq |-> pore_inv_seq, throat_inv_seq |-> throat_inv_seq,
      pore_inv_time |-> pore_inv_time, throat_inv_time |-> throat_inv_time,
      cluster_data |-> cluster_data, tlists |-> tlists, tpoints |-> tpoints,
      tseq |-> tseq, pseq |-> pseq, current_cluster |-> current_cluster,
      NewPore |-> NewPore, sim_time |-> sim_time, condition |-> condition,
      brkevent |-> brkevent, inv_seq_log |-> inv_seq_log,
      initial_distance |-> initial_distance, current_distance |-> current_distance,
      percent_complete |-> percent_complete, rough_complete |-> rough_complete ]

\* The next state holds the attributes of the record s.
Assign(s) ==
    /\ pore_cluster_final' = s.pore_cluster_final
    /\ pore_cluster_original' = s.pore_cluster_original
    /\ throat_cluster_final' = s.throat_cluster_final
    /\ pore_inv_seq' = s.pore_inv_seq
    /\ throat_inv_seq' = s.throat_inv_seq
    /\ pore_inv_time' = s.pore_inv_time
    /\ throat_inv_time' = s.throat_inv_time
    /\ cluster_data' = s.cluster_data
    /\ tlists' = s.tlists
    /\ tpoints' = s.tpoints
    /\ tseq' = s.tseq
    /\ pseq' = s.pseq
    /\ current_cluster' = s.current_cluster
    /\ NewPore' = s.NewPore
    /\ sim_time' = s.sim_time
    /\ condition' = s.condition
    /\ brkevent' = s.brkevent
    /\ inv_seq_log' = s.inv_seq_log
    /\ initial_distance' = s.initial_distance
    /\ current_distance' = s.current_distance
    /\ percent_complete' = s.percent_complete
    /\ rough_complete' = s.rough_complete

\* The haines_time of a cluster that never fires again.
HainesSentinel == 1000000000

\* Default flow rate per cluster.
inlet_flow == 1

InletChoices ==
    { << {0} >>, << {0, 3} >>, << {0}, {5} >>, << {0}, {3} >>, << {0}, {4}, {1} >> }

OutletChoices == { {2, 5}, {0, 5} }

\* self._clusterCount
clusterCount(s) == Len(s.inlets)

Clusters(s) == 1 .. clusterCount(s)

MaxClusters == CHOOSE n \in 1 .. num_pores :
                   /\ \E i \in InletChoices : Len(i) = n
                   /\ \A i \in InletChoices : Len(i) <= n

\* Times are integer multiples of 1/TimeScale.
TimeScale == Lcm(MaxClusters)

\* self._Tvol_coef[t] = tdia^3 * pi / 12 / Pc_entry
Tvol_coef(s, t) ==
    (ThroatDiameter[t] * ThroatDiameter[t] * ThroatDiameter[t] * PcLcm) \div s.Pc_entry[t]

\* (pore_volume + cap_volume) / flow_rate of cluster c
haines_time_of(cd, c) ==
    ((cd.pore_volume[c] + cd.cap_volume[c]) * TimeScale) \div cd.flow_rate[c]

\* list(zip(pressures, numbers)) for a sequence of throat numbers
zip_pressures(s, numbers) ==
    [k \in 1 .. Len(numbers) |-> << s.Pc_entry[numbers[k]], numbers[k] >>]

\* No object is registered and no call has been made.
NoModel ==
    [ geometries |-> << >>, phases |-> << >>, physics |-> << >>,
      phase_physics |-> << >>, physics_phase |-> << >>, content |-> << >>,
      last |-> << >> ]

\* The locals of the round-robin loop when it is not running.
ScanIdle ==
    [ started |-> FALSE, condition |-> 0, loop_count |-> 0, original_cluster |-> 0,
      cnum |-> 0, error |-> FALSE ]

\* The arrays and attributes of an object that has not run.
Blank ==
    /\ pore_cluster_final = [p \in Pores |-> 0]
    /\ pore_cluster_original = [p \in Pores |-> 0]
    /\ throat_cluster_final = [t \in Throats |-> 0]
    /\ pore_inv_seq = [p \in Pores |-> 0]
    /\ throat_inv_seq = [t \in Throats |-> 0]
    /\ pore_inv_time = [p \in Pores |-> 0]
    /\ throat_inv_time = [t \in Throats |-> 0]
    /\ pore_inv_sat = [p \in Pores |-> 0]
    /\ throat_inv_sat = [t \in Throats |-> 0]
    /\ tlists = << >>
    /\ tpoints = << >>
    /\ tseq = 0
    /\ pseq = 0
    /\ NewPore = -1
    /\ sim_time = 0
    /\ condition = 1
    /\ brkevent = << >>
    /\ pore_invaded = [p \in Pores |-> FALSE]
    /\ throat_invaded = [t \in Throats |-> FALSE]
    /\ pore_defended = [p \in Pores |-> FALSE]
    /\ throat_defended = [t \in Throats |-> FALSE]
    /\ last_query = << >>
    /\ inv_seq_log = << >>
    /\ initial_distance = 0
    /\ current_distance = 0
    /\ percent_complete = 0
    /\ rough_complete = 0

Init ==
    /\ Pc_assigned \in BOOLEAN
    /\ Pc_entry \in [Throats -> 1 .. MaxPc]
    /\ ~Pc_assigned => Pc_entry = [t \in Throats |-> 1]
    /\ inlets \in InletChoices
    /\ outlets \in OutletChoices
    /\ end_condition \in {"breakthrough", "total"}
    /\ timing \in BOOLEAN
    /\ pc = "setup"
    /\ cluster_data = [ flow_rate |-> << >>, haines_pressure |-> << >>,
                        haines_time |-> << >>, vol_coef |-> << >>,
                        cap_volume |-> << >>, pore_volume |-> << >>,
                        haines_throat |-> << >>, active |-> << >>,
                        transform |-> << >> ]
    /\ current_cluster = 0
    /\ Blank
    /\ scan = ScanIdle
    /\ registry = NoModel


(***************************************************************************)
(* _setup_for_IP                                                           *)
(***************************************************************************)
\* The arrays of _cluster_data as allocated for n clusters.
new_cluster_data(s) ==
    LET C == Clusters(s) IN
    [ flow_rate       |-> [c \in C |-> IF s.timing THEN inlet_flow ELSE 0],
      haines_pressure |-> [c \in C |-> 0],
      haines_time     |-> [c \in C |-> 0],
      vol_coef        |-> [c \in C |-> 0],
      cap_volume      |-> [c \in C |-> 0],
      pore_volume     |-> [c \in C |-> 0],
      haines_throat   |-> [c \in C |-> 0],
      active          |-> [c \in C |-> 1],
      transform       |-> [c \in C |-> c] ]

\* Mutant of label_inlet_pores: the original cluster of the inlet pores is
\* not recorded.
label_inlet_pores_final_only(s, clusterNumber) ==
    LET i == s.inlets[clusterNumber]
    IN  [s EXCEPT
            !.pore_cluster_final = [p \in Pores |-> IF p \in i THEN clusterNumber ELSE @[p]],
            !.pore_inv_seq = [p \in Pores |-> IF p \in i THEN s.tseq ELSE @[p]],
            !.pore_inv_time = [p \in Pores |-> IF s.timing /\ p \in i THEN s.sim_time ELSE @[p]],
            !.inv_seq_log = @ \o [k \in 1 .. Cardinality(i) |-> s.tseq]]

\* The inlet pores of cluster clusterNumber are labelled and marked as
\* invaded.
label_inlet_pores(s, clusterNumber) ==
    LET i == s.inlets[clusterNumber]
    IN  [s EXCEPT
            !.pore_cluster_final = [p \in Pores |-> IF p \in i THEN clusterNumber ELSE @[p]],
            !.pore_cluster_original = [p \in Pores |-> IF p \in i THEN clusterNumber ELSE @[p]],
            !.pore_inv_seq = [p \in Pores |-> IF p \in i THEN s.tseq ELSE @[p]],
            !.pore_inv_time = [p \in Pores |-> IF s.timing /\ p \in i THEN s.sim_time ELSE @[p]],
            !.inv_seq_log = @ \o [k \in 1 .. Cardinality(i) |-> s.tseq]]

\* One pass of the loop "for i in self._inlets" for cluster clusterNumber.
setup_cluster(s, clusterNumber) ==
    LET i  == s.inlets[clusterNumber]
        cd0 == s.cluster_data
        cd1 == IF s.timing
               THEN [cd0 EXCEPT !.pore_volume[clusterNumber] = SumSet(PoreVolumes, i)]
               ELSE cd0
        final == label_inlet_pores(s, clusterNumber).pore_cluster_final
        interface_throat_numbers ==
            find_neighbor_throats({p \in Pores : final[p] = clusterNumber})
        cd2 == IF s.timing
               THEN [cd1 EXCEPT !.vol_coef[clusterNumber] =
                        SumOver([t \in Throats |-> Tvol_coef(s, t)], interface_throat_numbers)]
               ELSE cd1
        Interface == heapify(zip_pressures(s, interface_throat_numbers))
        invaded_throat_info == Interface[1]
        cd3 == IF s.timing
               THEN LET a == [cd2 EXCEPT !.haines_pressure[clusterNumber] = invaded_throat_info[1]]
                        b == [a EXCEPT !.cap_volume[clusterNumber] =
                                 a.haines_pressure[clusterNumber] * a.vol_coef[clusterNumber]]
                    IN  [b EXCEPT !.haines_time[clusterNumber] = haines_time_of(b, clusterNumber)]
               ELSE cd2
        cd4 == [cd3 EXCEPT !.haines_throat[clusterNumber] = invaded_throat_info[2]]
    IN  [label_inlet_pores(s, clusterNumber) EXCEPT
                  !.tlists = Append(s.tlists, interface_throat_numbers),
                  !.tpoints = Append(s.tpoints, Interface),
                  !.cluster_data = cd4]

RECURSIVE setup_clusters(_, _)
setup_clusters(s, clusterNumber) ==
    IF clusterNumber > clusterCount(s) THEN s
    ELSE setup_clusters(setup_cluster(s, clusterNumber), clusterNumber + 1)

\* self._outlet_position
outlet_position(s) == centroid(s.outlets)

\* inlet_position: the average of the coordinates of the inlet pores
inlet_position(s) == centroid(UNION { s.inlets[k] : k \in 1 .. Len(s.inlets) })

\* The end of _setup_for_IP: the distance between inlets and outlets and
\* the progress made so far.
initial_progress(s) ==
    [s EXCEPT !.initial_distance = dist_sqrd(outlet_position(s), inlet_position(s)),
              !.current_distance = dist_sqrd(outlet_position(s), inlet_position(s)),
              !.percent_complete =
                  percent_of_distance(dist_sqrd(outlet_position(s), inlet_position(s)),
                                      dist_sqrd(outlet_position(s), inlet_position(s))),
              !.rough_complete = 0]

\* The arrays and the cluster storage _setup_for_IP creates before its
\* loop over the inlets.
allocate_arrays(s) ==
    [s EXCEPT !.pore_cluster_final = [p \in Pores |-> 0],
              !.pore_cluster_original = [p \in Pores |-> 0],
              !.throat_cluster_final = [t \in Throats |-> 0],
              !.pore_inv_seq = [p \in Pores |-> 0],
              !.throat_inv_seq = [t \in Throats |-> 0],
              !.pore_inv_time = [p \in Pores |-> IF s.timing THEN -TimeScale ELSE 0],
              !.throat_inv_time = [t \in Throats |-> IF s.timing THEN -TimeScale ELSE 0],
              !.cluster_data = new_cluster_data(s),
              !.tlists = << >>,
              !.tpoints = << >>]

\* _setup_for_IP when the phase has no capillary pressure: the lookup of
\* line 176 fails and is only logged.  With timing the local Pc_entry is
\* then unbound at line 181, before any array is created; without timing
\* the arrays are created and the pores of the first inlet are labelled
\* before the pressures of its throats are read at line 244.
setup_without_capillary_pressure(s) ==
    IF s.timing THEN s ELSE label_inlet_pores(allocate_arrays(s), 1)

setup_for_IP(s) ==
    LET s1 == setup_clusters(allocate_arrays(s), 1)
    IN  initial_progress(
            [s1 EXCEPT !.tseq = s1.tseq + 1, !.pseq = s1.pseq + 1, !.current_cluster = 0])

(***************************************************************************)
(* _condition_update                                                       *)
(***************************************************************************)
\* np.sum(self._cluster_data['active'])
sum_active(cd) == Cardinality({c \in DOMAIN cd.active : cd.active[c] = 1})

\* len(np.nonzero(self['pore.IP_cluster_final'])[0])
count_invaded_pores(s) == Cardinality({p \in Pores : s.pore_cluster_final[p] # 0})

\* coords[self._NewPore]; index -1 is the last pore.
newpore_position(s) ==
    [k \in 1 .. 3 |->
        CoordScale * Coords[IF s.NewPore = -1 THEN num_pores - 1 ELSE s.NewPore][k]]

\* newpore_distance
newpore_distance(s) == dist_sqrd(outlet_position(s), newpore_position(s))

\* The percentage of completion _condition_update computes.
update_percent(s) ==
    IF s.end_condition = "breakthrough"
    THEN IF newpore_distance(s) < s.current_distance
         THEN [s EXCEPT !.percent_complete =
                            percent_of_distance(s.initial_distance, newpore_distance(s)),
                        !.current_distance = newpore_distance(s)]
         ELSE s
    ELSE [s EXCEPT !.percent_complete = percent_of_count(count_invaded_pores(s))]

\* The progress report of _condition_update.
update_rough(s) ==
    IF FloatGt(s.percent_complete, 10 * (s.rough_complete + rough_increment))
    THEN [s EXCEPT !.rough_complete =
                       (s.percent_complete \div (10 * rough_increment)) * rough_increment]
    ELSE s

\* Mutant of breakthrough_and_end_tests: an outlet pore is only logged,
\* never stops its cluster.
condition_update_log_only(s) ==
    LET s1 == IF s.NewPore \in s.outlets
              THEN [s EXCEPT !.brkevent = Append(@, s.NewPore)]
              ELSE s
    IN  IF sum_active(s1.cluster_data) = 0 THEN [s1 EXCEPT !.condition = 0] ELSE s1

\* Mutant of breakthrough_and_end_tests: an outlet pore stops its cluster
\* in either mode.
condition_update_always_stops(s) ==
    LET cc == IF s.current_cluster = 0 THEN clusterCount(s) ELSE s.current_cluster
        s1 == IF s.NewPore \in s.outlets
              THEN [s EXCEPT !.cluster_data.active[cc] = 0,
                             !.cluster_data.haines_time[cc] =
                                 IF s.timing THEN HainesSentinel ELSE @]
              ELSE s
    IN  IF sum_active(s1.cluster_data) = 0 THEN [s1 EXCEPT !.condition = 0] ELSE s1

\* Mutant of breakthrough_and_end_tests: the cluster of an outlet pore is
\* marked inactive but keeps its haines_time.
condition_update_flag_only(s) ==
    LET cc == IF s.current_cluster = 0 THEN clusterCount(s) ELSE s.current_cluster
        s1 == IF s.NewPore \in s.outlets
              THEN IF s.end_condition = "breakthrough"
                   THEN [s EXCEPT !.cluster_data.active[cc] = 0]
                   ELSE [s EXCEPT !.brkevent = Append(@, s.NewPore)]
              ELSE s
    IN  IF sum_active(s1.cluster_data) = 0 THEN [s1 EXCEPT !.condition = 0] ELSE s1

\* Mutant of breakthrough_and_end_tests: the test that ends the run when no
\* cluster is active is left out.
condition_update_no_end_test(s) ==
    IF s.NewPore \in s.outlets
    THEN IF s.end_condition = "breakthrough"
         THEN [s EXCEPT !.cluster_data.active[IF s.current_cluster = 0 THEN clusterCount(s)
                                              ELSE s.current_cluster] = 0,
                        !.cluster_data.haines_time[IF s.current_cluster = 0 THEN clusterCount(s)
                                                   ELSE s.current_cluster] =
                            IF s.timing THEN HainesSentinel ELSE @]
         ELSE [s EXCEPT !.brkevent = Append(@, s.NewPore)]
    ELSE s

\* The breakthrough test and the end-of-run test of _condition_update.
\* current_cluster is 0 in the call made right after the setup; the code
\* would then index active[-1], the last cluster.
breakthrough_and_end_tests(s) ==
    LET cc == IF s.current_cluster = 0 THEN clusterCount(s) ELSE s.current_cluster
        s1 == IF s.NewPore \in s.outlets
              THEN IF s.end_condition = "breakthrough"
                   THEN [s EXCEPT !.cluster_data.active[cc] = 0,
                                  !.cluster_data.haines_time[cc] =
                                      IF s.timing THEN HainesSentinel ELSE @]
                   ELSE [s EXCEPT !.brkevent = Append(@, s.NewPore)]
              ELSE s
    IN  IF sum_active(s1.cluster_data) = 0 THEN [s1 EXCEPT !.condition = 0] ELSE s1


condition_update(s) == breakthrough_and_end_tests(update_rough(update_percent(s)))


(***************************************************************************)
(* _do_inner_iteration_stage: choice of the cluster that fires             *)
(***************************************************************************)
\* min(self._cluster_data['haines_time'])
min_haines_time(cd) ==
    CHOOSE m \in { cd.haines_time[c] : c \in DOMAIN cd.haines_time } :
        \A c \in DOMAIN cd.haines_time : m <= cd.haines_time[c]

\* Mutant of earliest_cluster: the highest id wins a tie.
earliest_cluster_last_index(cd) ==
    CHOOSE c \in DOMAIN cd.haines_time :
        /\ cd.haines_time[c] = min_haines_time(cd)
        /\ \A d \in DOMAIN cd.haines_time : cd.haines_time[d] = min_haines_time(cd) => c >= d

\* 1 + haines_time.tolist().index(min(haines_time))
earliest_cluster(cd) ==
    CHOOSE c \in DOMAIN cd.haines_time :
        /\ cd.haines_time[c] = min_haines_time(cd)
        /\ \A d \in DOMAIN cd.haines_time : cd.haines_time[d] = min_haines_time(cd) => c <= d

\* Mutant of cycle_scan: the scan starts from cluster 1 whatever the
\* current cluster.
cycle_scan_lowest_active(active, n, cnum) ==
    CHOOSE c \in 1 .. n : active[c] = 1 /\ \A d \in 1 .. (c - 1) : active[d] # 1

RECURSIVE cycle_scan(_, _, _)
\* The loop "while condition == 0" from cnum on, n clusters, with at least
\* one active cluster: the first active cluster met.
cycle_scan(active, n, cnum) ==
    LET c == IF cnum > n THEN 1 ELSE cnum
    IN  IF active[c] = 1 THEN c ELSE cycle_scan(active, n, c + 1)

\* Cycle to the next active cluster; 0 when no cluster is active (the loop
\* of the code then never ends).
next_active_cluster(s) ==
    IF sum_active(s.cluster_data) = 0 THEN 0
    ELSE cycle_scan(s.cluster_data.active, clusterCount(s), s.current_cluster + 1)

\* The first part of _do_inner_iteration_stage: current cluster and clock.
select_cluster(s) ==
    IF s.timing
    THEN [s EXCEPT !.current_cluster = earliest_cluster(s.cluster_data),
                   !.sim_time = min_haines_time(s.cluster_data)]
    ELSE [s EXCEPT !.current_cluster = next_active_cluster(s)]

(***************************************************************************)
(* _do_one_inner_iteration                                                 *)
(***************************************************************************)
Min2(a, b) == IF a <= b THEN a ELSE b
Max2(a, b) == IF a >= b THEN a ELSE b

InSeq(x, q) == \E k \in 1 .. Len(q) : q[k] = x

\* Pop tinvade off the current cluster's heap and mark it as invaded.
pop_and_mark(s) ==
    LET cc == s.current_cluster
        tinvade == heappop_item(s.tpoints[cc])[2]
    IN  [s EXCEPT !.tpoints[cc] = heappop_rest(s.tpoints[cc]),
                  !.throat_inv_seq[tinvade] = s.tseq,
                  !.inv_seq_log = Append(@, s.tseq),
                  !.throat_inv_time[tinvade] = IF s.timing THEN s.sim_time ELSE @,
                  !.cluster_data.vol_coef[cc] = IF s.timing THEN @ - Tvol_coef(s, tinvade) ELSE @]

\* Mutant of update_transform: a merge leaves transform as it is.
update_transform_unchanged(transform, maxCluster, current) == transform

\* Mutant of update_transform: only the absorbed cluster's own entry changes.
update_transform_own_entry(transform, maxCluster, current) ==
    [transform EXCEPT ![maxCluster] = current]

\* transform[transform == maxCluster] = current
update_transform(transform, maxCluster, current) ==
    [c \in DOMAIN transform |-> IF transform[c] = maxCluster THEN current ELSE transform[c]]

\* Mutant of relabel: the labels of the absorbed cluster are left as they are.
relabel_skipped(labels, maxCluster, current) == labels

\* labels[labels == maxCluster] = current
relabel(labels, maxCluster, current) ==
    [x \in DOMAIN labels |-> IF labels[x] = maxCluster THEN current ELSE labels[x]]

\* Mutant of merge_volumes: the flow rate of the absorbed cluster is dropped,
\* not added to the survivor's.
merge_volumes_flow_rate_dropped(cd, cur, maxCluster) ==
    [cd EXCEPT !.vol_coef[cur] = @ + cd.vol_coef[maxCluster],
               !.vol_coef[maxCluster] = 0,
               !.pore_volume[cur] = @ + cd.pore_volume[maxCluster],
               !.pore_volume[maxCluster] = 0,
               !.flow_rate[maxCluster] = 0]

\* The clusters' vol_coef, pore_volume and flow_rate on a merge (timing on).
merge_volumes(cd, cur, maxCluster) ==
    LET a == [cd EXCEPT !.vol_coef[cur] = @ + cd.vol_coef[maxCluster]]
        b == [a EXCEPT !.vol_coef[maxCluster] = 0]
        c == [b EXCEPT !.pore_volume[cur] = @ + b.pore_volume[maxCluster]]
        d == [c EXCEPT !.pore_volume[maxCluster] = 0]
        e == [d EXCEPT !.flow_rate[cur] = @ + d.flow_rate[maxCluster]]
    IN  [e EXCEPT !.flow_rate[maxCluster] = 0]

\* Mutant of merge_activity: the survivor of a merge is always left active.
merge_activity_survivor_on(cd, cur, maxCluster, timed) ==
    LET a == IF timed THEN [cd EXCEPT !.haines_time[maxCluster] = HainesSentinel] ELSE cd
        b == [a EXCEPT !.active[maxCluster] = 0]
    IN  [b EXCEPT !.active[cur] = 1]

\* Mutant of merge_activity: only the absorbed cluster is stopped, whatever
\* the flags of the two clusters were.
merge_activity_absorbed_only(cd, cur, maxCluster, timed) ==
    LET b == IF timed THEN [cd EXCEPT !.haines_time[maxCluster] = HainesSentinel] ELSE cd
    IN  [b EXCEPT !.active[maxCluster] = 0]

\* The activity and haines_time of the two clusters on a merge.
merge_activity(cd, cur, maxCluster, timed) ==
    LET a == IF cd.active[maxCluster] + cd.active[cur] < 2
             THEN LET x == [cd EXCEPT !.active[maxCluster] = 0]
                      y == [x EXCEPT !.active[cur] = 0]
                  IN  IF timed THEN [y EXCEPT !.haines_time[cur] = HainesSentinel] ELSE y
             ELSE cd
        b == IF timed THEN [a EXCEPT !.haines_time[maxCluster] = HainesSentinel] ELSE a
    IN  [b EXCEPT !.active[maxCluster] = 0]

\* The branch "pores are from 2 different clusters": cluster maxCluster is
\* absorbed by cluster cur.
merge_clusters(s, cur, maxCluster) ==
    LET tl1 == [s.tlists EXCEPT ![cur] = s.tlists[cur] \o s.tlists[maxCluster]]
        tl2 == [tl1 EXCEPT ![maxCluster] = << >>]
        tp1 == [s.tpoints EXCEPT ![cur] = heapq_merge(s.tpoints[cur], s.tpoints[maxCluster])]
        tp2 == [tp1 EXCEPT ![maxCluster] = << >>]
        cd1 == [s.cluster_data EXCEPT
                   !.transform = update_transform(@, maxCluster, cur)]
        cd2 == IF s.timing THEN merge_volumes(cd1, cur, maxCluster) ELSE cd1
        cd3 == merge_activity(cd2, cur, maxCluster, s.timing)
    IN  [s EXCEPT !.cluster_data = cd3,
                  !.pore_cluster_final = relabel(@, maxCluster, cur),
                  !.throat_cluster_final = relabel(@, maxCluster, cur),
                  !.tlists = tl2,
                  !.tpoints = tp2]

\* Mutant of both_invaded: a merge relabels the original cluster of the
\* pores of the absorbed cluster as well.
both_invaded_relabels_original(s, tinvade) ==
    LET P == find_connected_pores(tinvade)
        clusters == [k \in 1 .. 2 |-> s.cluster_data.transform[s.pore_cluster_final[P[k]]]]
        cur == Min2(clusters[1], clusters[2])
        s1 == [s EXCEPT !.NewPore = -1,
                        !.current_cluster = cur,
                        !.throat_cluster_final[tinvade] = cur]
    IN  IF s.pore_cluster_final[P[1]] # s.pore_cluster_final[P[2]]
        THEN merge_clusters(
                 [s1 EXCEPT !.pore_cluster_original =
                                relabel(@, Max2(clusters[1], clusters[2]), cur)],
                 cur, Max2(clusters[1], clusters[2]))
        ELSE s1

\* The branch "both pores are already invaded".
both_invaded(s, tinvade) ==
    LET P == find_connected_pores(tinvade)
        clusters == [k \in 1 .. 2 |-> s.cluster_data.transform[s.pore_cluster_final[P[k]]]]
        cur == Min2(clusters[1], clusters[2])
        s1 == [s EXCEPT !.NewPore = -1,
                        !.current_cluster = cur,
                        !.throat_cluster_final[tinvade] = cur]
    IN  IF s.pore_cluster_final[P[1]] # s.pore_cluster_final[P[2]]
        THEN merge_clusters(s1, cur, Max2(clusters[1], clusters[2]))
        ELSE s1

RECURSIVE push_neighbors_always(_, _)
\* Mutant of push_neighbors: every neighbouring throat is pushed, tracked by
\* the cluster or not.
push_neighbors_always(s, neighbors) ==
    IF neighbors = << >> THEN s
    ELSE push_neighbors_always(
             [s EXCEPT !.tpoints[s.current_cluster] =
                           heappush(@, << s.Pc_entry[Head(neighbors)], Head(neighbors) >>),
                       !.tlists[s.current_cluster] = Append(@, Head(neighbors)),
                       !.cluster_data.vol_coef[s.current_cluster] =
                           IF s.timing THEN @ + Tvol_coef(s, Head(neighbors)) ELSE @],
             Tail(neighbors))

RECURSIVE push_neighbors(_, _)
\* The loop "for j in neighbors" over the sequence of throats left to visit.
push_neighbors(s, neighbors) ==
    IF neighbors = << >> THEN s
    ELSE LET j == Head(neighbors)
             cc == s.current_cluster
         IN  IF ~InSeq(j, s.tlists[cc])
             THEN push_neighbors(
                      [s EXCEPT !.tpoints[cc] = heappush(@, << s.Pc_entry[j], j >>),
                                !.tlists[cc] = Append(@, j),
                                !.cluster_data.vol_coef[cc] =
                                    IF s.timing THEN @ + Tvol_coef(s, j) ELSE @],
                      Tail(neighbors))
             ELSE push_neighbors(s, Tail(neighbors))

\* Mutant of invade_new_pore: the throat that leads to the new pore is not
\* labelled with the cluster.
invade_new_pore_throat_unlabelled(s, tinvade) ==
    LET P == find_connected_pores(tinvade)
        cc == s.current_cluster
        np == IF s.pore_cluster_final[P[1]] = 0 THEN P[1] ELSE P[2]
        s1 == [s EXCEPT !.NewPore = np,
                        !.pore_cluster_final[np] = cc,
                        !.pore_cluster_original[np] = cc,
                        !.pore_inv_time[np] = IF s.timing THEN s.sim_time ELSE @,
                        !.pore_inv_seq[np] = s.tseq,
                        !.inv_seq_log = Append(@, s.tseq),
                        !.cluster_data.pore_volume[cc] =
                            IF s.timing THEN @ + PoreVolumes[np] ELSE @]
    IN  push_neighbors(s1, find_neighbor_throats({np}))

\* The branch "else": the throat leads to an uninvaded pore.
invade_new_pore(s, tinvade) ==
    LET P == find_connected_pores(tinvade)
        cc == s.current_cluster
        np == IF s.pore_cluster_final[P[1]] = 0 THEN P[1] ELSE P[2]
        s1 == [s EXCEPT !.throat_cluster_final[tinvade] = cc,
                        !.NewPore = np,
                        !.pore_cluster_final[np] = cc,
                        !.pore_cluster_original[np] = cc,
                        !.pore_inv_time[np] = IF s.timing THEN s.sim_time ELSE @,
                        !.pore_inv_seq[np] = s.tseq,
                        !.inv_seq_log = Append(@, s.tseq),
                        !.cluster_data.pore_volume[cc] =
                            IF s.timing THEN @ + PoreVolumes[np] ELSE @]
    IN  push_neighbors(s1, find_neighbor_throats({np}))

RECURSIVE clean_frontier(_)
\* The loop "while throat.IP_cluster_final[top] > 0" on a non-empty heap.
clean_frontier(s) ==
    LET cc == s.current_cluster
        h == s.tpoints[cc]
    IN  IF s.throat_cluster_final[h[1][2]] > 0
        THEN LET tremove == heappop_item(h)[2]
                 s1 == [s EXCEPT !.tpoints[cc] = heappop_rest(h),
                                 !.cluster_data.vol_coef[cc] =
                                     IF s.timing THEN @ - Tvol_coef(s, tremove) ELSE @]
             IN  IF s1.tpoints[cc] = << >>
                 THEN [s1 EXCEPT !.cluster_data.active[cc] = 0]
                 ELSE clean_frontier(s1)
        ELSE s

\* Mutant of clean_nonempty_frontier: invaded throats are left on top of the
\* heap.
clean_nonempty_frontier_skipped(s) == s

\* "if self._tpoints[...] != []": the clean-up loop runs on a non-empty heap.
clean_nonempty_frontier(s) ==
    IF s.tpoints[s.current_cluster] # << >> THEN clean_frontier(s) ELSE s

\* Mutant of next_haines_jump: cap_volume is left as it was.
next_haines_jump_stale_cap_volume(s) ==
    IF s.tpoints[s.current_cluster] # << >>
    THEN IF s.timing
         THEN [s EXCEPT !.cluster_data.haines_throat[s.current_cluster] =
                            s.tpoints[s.current_cluster][1][2],
                        !.cluster_data.haines_pressure[s.current_cluster] =
                            s.tpoints[s.current_cluster][1][1]]
         ELSE [s EXCEPT !.cluster_data.haines_throat[s.current_cluster] =
                            s.tpoints[s.current_cluster][1][2]]
    ELSE s

\* The next throat of the current cluster: haines_throat, and with timing on
\* haines_pressure and cap_volume, when the heap is not empty.
next_haines_jump(s) ==
    LET cc == s.current_cluster
    IN  IF s.tpoints[cc] # << >>
        THEN LET top == s.tpoints[cc][1]
             IN  IF s.timing
                 THEN [s EXCEPT !.cluster_data.haines_throat[cc] = top[2],
                                !.cluster_data.haines_pressure[cc] = top[1],
                                !.cluster_data.cap_volume[cc] =
                                    top[1] * s.cluster_data.vol_coef[cc]]
                 ELSE [s EXCEPT !.cluster_data.haines_throat[cc] = top[2]]
        ELSE s

\* Mutant of stop_if_empty: a cluster whose heap has run empty stays active.
stop_if_empty_skipped(s) == s

\* "if self._tpoints[...] == []": the cluster is stopped.
stop_if_empty(s) ==
    LET cc == s.current_cluster
    IN  IF s.tpoints[cc] = << >>
        THEN [s EXCEPT !.cluster_data.active[cc] = 0,
                       !.cluster_data.haines_time[cc] =
                           IF s.timing THEN HainesSentinel ELSE @]
        ELSE s

\* With timing on, the haines_time of the current cluster if it is active.
new_haines_time(s) ==
    LET cc == s.current_cluster
    IN  IF s.timing /\ s.cluster_data.active[cc] = 1
        THEN [s EXCEPT !.cluster_data.haines_time[cc] = haines_time_of(s.cluster_data, cc)]
        ELSE s

\* Mutant of not_before_sim_time: the recomputed haines_time is kept as it is.
not_before_sim_time_skipped(s) == s

\* With timing on, a haines_time before the clock is moved to the clock.
not_before_sim_time(s) ==
    LET cc == s.current_cluster
    IN  IF s.timing /\ s.cluster_data.haines_time[cc] < s.sim_time
        THEN [s EXCEPT !.cluster_data.haines_time[cc] = s.sim_time]
        ELSE s

\* "Find next Haines Jump info" to the end of _do_one_inner_iteration.
find_next_haines(s) ==
    not_before_sim_time(new_haines_time(stop_if_empty(next_haines_jump(
        clean_nonempty_frontier(s)))))

\* "Mark pore as invaded": the two branches on the end pores of tinvade.
fill_pore(s, tinvade) ==
    LET P == find_connected_pores(tinvade)
    IN  IF s.pore_cluster_final[P[1]] # 0 /\ s.pore_cluster_final[P[2]] # 0
        THEN both_invaded(s, tinvade)
        ELSE invade_new_pore(s, tinvade)

do_one_inner_iteration(s) ==
    find_next_haines(
        fill_pore(pop_and_mark(s), heappop_item(s.tpoints[s.current_cluster])[2]))

\* Mutant of advance_counters: tseq advances like pseq, only when a pore was
\* invaded.
advance_counters_tseq_as_pseq(s, plast) ==
    [s EXCEPT !.tseq = IF count_invaded_pores(s) > plast THEN @ + 1 ELSE @,
              !.pseq = IF count_invaded_pores(s) > plast THEN @ + 1 ELSE @]

\* The end of _do_inner_iteration_stage: tseq advances, and pseq does if the
\* number of invaded pores went up from plast.
advance_counters(s, plast) ==
    [s EXCEPT !.tseq = @ + 1,
              !.pseq = IF count_invaded_pores(s) > plast THEN @ + 1 ELSE @]

do_inner_iteration_stage(s) ==
    advance_counters(do_one_inner_iteration(select_cluster(s)), count_invaded_pores(s))

do_one_outer_iteration(s) == condition_update(do_inner_iteration_stage(s))


(***************************************************************************)
(* The saturation pass at the end of _do_outer_iteration_stage.            *)
(* Saturations are kept as numerators over v_total.                        *)
(***************************************************************************)
v_total == SumSet(PoreVolumes, Pores) + SumSet(ThroatVolumes, Throats)

RECURSIVE saturation_loop_new_sat_only(_, _, _)
\* Mutant of saturation_loop: the stamp is the saturation added at number i,
\* not the saturation accumulated.
saturation_loop_new_sat_only(r, i, sat) ==
    IF i > r.tseq THEN r
    ELSE LET inv_pores == {p \in Pores : r.pore_inv_seq[p] = i}
             inv_throats == {t \in Throats : r.throat_inv_seq[t] = i}
             new_sat == SumSet(PoreVolumes, inv_pores) + SumSet(ThroatVolumes, inv_throats)
         IN  saturation_loop_new_sat_only(
                 [r EXCEPT !.pore_inv_sat = [p \in Pores |->
                                IF p \in inv_pores THEN new_sat ELSE @[p]],
                           !.throat_inv_sat = [t \in Throats |->
                                IF t \in inv_throats THEN new_sat ELSE @[t]]],
                 i + 1, sat)

RECURSIVE saturation_loop(_, _, _)
\* The loop "for i in range(1, self._tseq+1)" from i on, sat being the
\* saturation accumulated so far; r holds the two saturation arrays.
saturation_loop(r, i, sat) ==
    IF i > r.tseq THEN r
    ELSE LET inv_pores == {p \in Pores : r.pore_inv_seq[p] = i}
             inv_throats == {t \in Throats : r.throat_inv_seq[t] = i}
             new_sat == SumSet(PoreVolumes, inv_pores) + SumSet(ThroatVolumes, inv_throats)
             sat2 == sat + new_sat
         IN  saturation_loop(
                 [r EXCEPT !.pore_inv_sat = [p \in Pores |->
                                IF p \in inv_pores THEN sat2 ELSE @[p]],
                           !.throat_inv_sat = [t \in Throats |->
                                IF t \in inv_throats THEN sat2 ELSE @[t]]],
                 i + 1, sat2)

calculate_saturations(s) ==
    saturation_loop([ tseq |-> s.tseq,
                      pore_inv_seq |-> s.pore_inv_seq,
                      throat_inv_seq |-> s.throat_inv_seq,
                      pore_inv_sat |-> [p \in Pores |-> v_total],
                      throat_inv_sat |-> [t \in Throats |-> v_total] ], 1, 0)

(***************************************************************************)
(* update_results(IPseq, IPsat).  -1 stands for None; IPsat is a numerator *)
(* over v_total.                                                           *)
(***************************************************************************)
None == -1

SetMax(S) == CHOOSE m \in S : \A x \in S : x <= m

\* The sequence cutoff update_results works with.
cutoff_seq(IPseq, IPsat) ==
    IF IPseq = None
    THEN IF IPsat # None
         THEN LET sat_pores == {p \in Pores : pore_inv_sat[p] <= IPsat}
              IN  IF sat_pores = {} THEN 0
                  ELSE SetMax({pore_inv_seq[p] : p \in sat_pores})
         ELSE tseq
    ELSE IPseq

\* Mutant of invaded_masks: the test inv_seq > 0 is dropped.
invaded_masks_without_lower_bound(IPseq, IPsat) ==
    LET cut == cutoff_seq(IPseq, IPsat)
    IN  [ pore |-> [p \in Pores |-> pore_inv_seq[p] <= cut],
          throat |-> [t \in Throats |-> throat_inv_seq[t] <= cut] ]

\* self['pore.invaded'] and self['throat.invaded'] for the cutoff given.
invaded_masks(IPseq, IPsat) ==
    LET cut == cutoff_seq(IPseq, IPsat)
    IN  [ pore |-> [p \in Pores |-> pore_inv_seq[p] > 0 /\ pore_inv_seq[p] <= cut],
          throat |-> [t \in Throats |-> throat_inv_seq[t] > 0 /\ throat_inv_seq[t] <= cut] ]

(***************************************************************************)
(* Actions                                                                 *)
(***************************************************************************)
config == << Pc_assigned, Pc_entry, inlets, outlets, end_condition, timing >>

results == << pore_invaded, throat_invaded, pore_defended, throat_defended, last_query >>

\* _do_outer_iteration_stage up to the loop: the counters are reset, then
\* _setup_for_IP and the first _condition_update.
Setup ==
    /\ pc = "setup"
    /\ Pc_assigned
    /\ Assign(condition_update(setup_for_IP(
           [Self EXCEPT !.pseq = 1, !.tseq = 1, !.NewPore = -1, !.sim_time = 0,
                        !.brkevent = << >>])))
    /\ pc' = "running"
    /\ UNCHANGED << config, results, pore_inv_sat, throat_inv_sat, scan, registry >>

\* _do_outer_iteration_stage for a phase without capillary pressure: the
\* counters are reset and _setup_for_IP ends with an exception.
SetupFails ==
    /\ pc = "setup"
    /\ ~Pc_assigned
    /\ Assign(setup_without_capillary_pressure(
           [Self EXCEPT !.pseq = 1, !.tseq = 1, !.NewPore = -1, !.sim_time = 0,
                        !.brkevent = << >>]))
    /\ pc' = "failed"
    /\ UNCHANGED << config, results, pore_inv_sat, throat_inv_sat, scan, registry >>

\* One pass of "while self._condition": _do_one_outer_iteration.
OneOuterIteration ==
    /\ pc = "running"
    /\ condition = 1
    /\ Assign(do_one_outer_iteration(Self))
    /\ UNCHANGED << pc, config, results, pore_inv_sat, throat_inv_sat, scan, registry >>

\* The loop has ended: the saturations are calculated and run() returns.
CalculateSaturations ==
    /\ pc = "running"
    /\ condition = 0
    /\ LET r == calculate_saturations(Self)
       IN  /\ pore_inv_sat' = r.pore_inv_sat
           /\ throat_inv_sat' = r.throat_inv_sat
    /\ pc' = "done"
    /\ UNCHANGED << config, results, pore_cluster_final, pore_cluster_original,
                    throat_cluster_final, pore_inv_seq, throat_inv_seq,
                    pore_inv_time, throat_inv_time, cluster_data, tlists, tpoints,
                    tseq, pseq, current_cluster, NewPore, sim_time, condition,
                    brkevent, inv_seq_log, initial_distance, current_distance,
                    percent_complete, rough_complete, scan, registry >>

\* update_results(IPseq=IPseq, IPsat=IPsat) on the finished run.
UpdateResults(IPseq, IPsat) ==
    /\ pc = "done"
    /\ LET m == invaded_masks(IPseq, IPsat)
       IN  /\ pore_invaded' = m.pore
           /\ throat_invaded' = m.throat
           /\ pore_defended' = [p \in Pores |-> ~m.pore[p]]
           /\ throat_defended' = [t \in Throats |-> ~m.throat[t]]
    /\ last_query' = << IPseq, IPsat >>
    /\ UNCHANGED << pc, config, pore_inv_sat, throat_inv_sat, pore_cluster_final,
                    pore_cluster_original, throat_cluster_final, pore_inv_seq,
                    throat_inv_seq, pore_inv_time, throat_inv_time, cluster_data,
                    tlists, tpoints, tseq, pseq, current_cluster, NewPore, sim_time,
                    condition, brkevent, inv_seq_log, initial_distance,
                    current_distance, percent_complete, rough_complete, scan, registry >>

Run == Setup \/ SetupFails \/ OneOuterIteration \/ CalculateSaturations

Next == Run

Spec == Init /\ [][Next]_vars

\* The algorithm object before run() is called: the arguments of run() are
\* at their defaults and nothing has been computed.
InitLive ==
    /\ Pc_assigned = FALSE
    /\ Pc_entry = [t \in Throats |-> 1]
    /\ inlets = << {0} >>
    /\ outlets = {num_pores - 1}
    /\ end_condition = "breakthrough"
    /\ timing = TRUE
    /\ pc = "new"
    /\ cluster_data = [ flow_rate |-> << >>, haines_pressure |-> << >>,
                        haines_time |-> << >>, vol_coef |-> << >>,
                        cap_volume |-> << >>, pore_volume |-> << >>,
                        haines_throat |-> << >>, active |-> << >>,
                        transform |-> << >> ]
    /\ current_cluster = 0
    /\ Blank
    /\ scan = ScanIdle
    /\ registry = NoModel

\* run() stores its arguments: the invading phase (with or without
\* capillary pressures), the inlets, the outlets, the end condition, the
\* timing switch.
StartRun ==
    /\ pc = "new"
    /\ pc' = "setup"
    /\ Pc_assigned' \in BOOLEAN
    /\ Pc_entry' \in [Throats -> 1 .. MaxPc]
    /\ ~Pc_assigned' => Pc_entry' = [t \in Throats |-> 1]
    /\ inlets' \in InletChoices
    /\ outlets' \in OutletChoices
    /\ end_condition' \in {"breakthrough", "total"}
    /\ timing' \in BOOLEAN
    /\ UNCHANGED << results, pore_cluster_final, pore_cluster_original,
                    throat_cluster_final, pore_inv_seq, throat_inv_seq, pore_inv_time,
                    throat_inv_time, pore_inv_sat, throat_inv_sat,
                    cluster_data, tlists, tpoints, tseq, pseq,
                    current_cluster, NewPore, sim_time, condition, brkevent,
                    inv_seq_log, initial_distance, current_distance,
                    percent_complete, rough_complete, scan, registry >>

NextLive == StartRun \/ Run

\* A step of the program: it moves the program on (pc) or is an event of
\* the loop (tseq).  Every step of NextLive is one, and one can be taken
\* wherever run() has not returned or failed.
ProgramStep ==
    /\ pc \notin {"done", "failed"}
    /\ pc' \in {"setup", "running", "done", "failed"}
    /\ tseq' \in 0 .. (Cardinality(Throats) + 2)
    /\ << pc', tseq' >> # << pc, tseq >>

\* The run as the interpreter executes it: run() is sequential code, so as
\* long as it has not returned or failed its next step is taken.
SpecLive == InitLive /\ [][NextLive]_vars /\ WF_<< pc, tseq >>(ProgramStep)

\* The cutoffs update_results is called with: a sequence number, or a
\* saturation, or neither.
QueryChoices ==
    { << k, None >> : k \in 0 .. tseq } \cup
    { << None, x >> : x \in {None, 0, v_total \div 2, v_total} }

Query == \E q \in QueryChoices : UpdateResults(q[1], q[2])

NextResults == Run \/ Query

\* The run followed by any number of calls of update_results.
SpecResults == Init /\ [][NextResults]_vars


(***************************************************************************)
(* The loop of _do_inner_iteration_stage that cycles to the next active    *)
(* cluster, one pass at a time, for any activity of the clusters and any   *)
(* current cluster.                                                        *)
(***************************************************************************)
\* The passes made after loop_count has reached this number are not
\* followed.
MaxLoopCount == 2

InitScan ==
    /\ Pc_assigned = TRUE
    /\ Pc_entry = [t \in Throats |-> 1]
    /\ inlets \in InletChoices
    /\ outlets \in OutletChoices
    /\ end_condition = "breakthrough"
    /\ timing = FALSE
    /\ pc = "scan"
    /\ \E a \in [1 .. Len(inlets) -> {0, 1}] :
           cluster_data = [new_cluster_data([inlets |-> inlets, timing |-> FALSE])
                               EXCEPT !.active = a]
    /\ current_cluster \in 0 .. Len(inlets)
    /\ Blank
    /\ scan = ScanIdle
    /\ registry = NoModel

\* condition = 0, loop_count = 0, original_cluster and cnum are set.
ScanStart ==
    /\ pc = "scan"
    /\ ~scan.started
    /\ UNCHANGED registry
    /\ scan' = [ started |-> TRUE, condition |-> 0, loop_count |-> 0,
                 original_cluster |-> current_cluster, cnum |-> current_cluster + 1,
                 error |-> FALSE ]
    /\ UNCHANGED << pc, config, results, pore_inv_sat, throat_inv_sat,
                    pore_cluster_final, pore_cluster_original, throat_cluster_final,
                    pore_inv_seq, throat_inv_seq, pore_inv_time, throat_inv_time,
                    cluster_data, tlists, tpoints, tseq, pseq, current_cluster,
                    NewPore, sim_time, condition, brkevent, inv_seq_log,
                    initial_distance, current_distance, percent_complete,
                    rough_complete >>

\* The locals after one pass of "while condition == 0"; error is set when
\* 'No clusters active. Stuck in infinite loop.' is logged.
scan_pass(sc, active, n) ==
    LET cnum == IF sc.cnum > n THEN 1 ELSE sc.cnum
        loop_count == IF cnum = sc.original_cluster THEN sc.loop_count + 1
                      ELSE sc.loop_count
    IN  [sc EXCEPT !.condition = IF active[cnum] = 1 THEN 1 ELSE 0,
                   !.loop_count = loop_count,
                   !.error = sc.error \/ loop_count > 1,
                   !.cnum = cnum + 1]

\* One pass of "while condition == 0".
ScanPass ==
    /\ pc = "scan"
    /\ scan.started
    /\ scan.condition = 0
    /\ scan.loop_count <= MaxLoopCount
    /\ UNCHANGED registry
    /\ scan' = scan_pass(scan, cluster_data.active, Len(inlets))
    /\ current_cluster' = IF scan'.condition = 1 THEN scan'.cnum - 1 ELSE current_cluster
    /\ UNCHANGED << pc, config, results, pore_inv_sat, throat_inv_sat,
                    pore_cluster_final, pore_cluster_original, throat_cluster_final,
                    pore_inv_seq, throat_inv_seq, pore_inv_time, throat_inv_time,
                    cluster_data, tlists, tpoints, tseq, pseq,
                    NewPore, sim_time, condition, brkevent, inv_seq_log,
                    initial_distance, current_distance, percent_complete,
                    rough_complete >>

NextScan == ScanStart \/ ScanPass

SpecScan == InitScan /\ [][NextScan]_vars


(***************************************************************************)
(* Base.find_object and Base.delete_object, called on the network of a     *)
(* model.  An object is known by its name: names are unique and are never  *)
(* changed (_set_name).  Objects are dicts, so == between two of them      *)
(* compares their contents.                                                *)
(***************************************************************************)
NetworkName == "net"
GeometryNames == {"geo1", "geo2"}
PhaseNames == {"air", "water"}
PhysicsNames == {"phys1", "phys2"}

ObjectNames == GeometryNames \cup PhaseNames \cup PhysicsNames

\* physics._phase of a physics whose phase was deleted.
NoPhase == "None"

\* The sequences without repeats of the elements of S.
Perms(S) ==
    { q \in [1 .. Cardinality(S) -> S] : \A i, j \in DOMAIN q : q[i] = q[j] => i = j }

\* The lists without repeats of elements of S.
Arrangements(S) == UNION { Perms(T) : T \in SUBSET S }

\* phase._physics: the physics of the list attached to the phase ph, in the
\* order of the list.
RECURSIVE physics_of_phase(_, _, _)
physics_of_phase(physics, owner, ph) ==
    IF physics = << >> THEN << >>
    ELSE (IF owner[Head(physics)] = ph THEN << Head(physics) >> ELSE << >>)
             \o physics_of_phase(Tail(physics), owner, ph)

\* The contents of the objects: all different, or all alike (as the dicts of
\* objects that hold the same data).
ContentChoices ==
    { [o \in ObjectNames \cup {NetworkName} |-> o],
      [o \in ObjectNames \cup {NetworkName} |-> "alike"] }

\* a == b for two objects: the same object, or dicts with the same contents.
ObjectsEqual(r, a, b) == a = b \/ r.content[a] = r.content[b]

\* The index list.remove(obj) removes: the first element equal to obj;
\* 0 when there is none (ValueError).
remove_index(r, list, obj) ==
    IF \E k \in DOMAIN list : ObjectsEqual(r, list[k], obj)
    THEN CHOOSE k \in DOMAIN list :
             /\ ObjectsEqual(r, list[k], obj)
             /\ \A j \in 1 .. (k - 1) : ~ObjectsEqual(r, list[j], obj)
    ELSE 0

\* The list after list.remove(obj) has removed its element k.
without_index(list, k) ==
    [j \in 1 .. (Len(list) - 1) |-> IF j < k THEN list[j] ELSE list[j + 1]]

\* find_object(obj_name=n) called on the network: the object in a list of
\* one element, or the empty list.
find_object(r, n) ==
    IF n = NetworkName THEN << n >>
    ELSE IF \E k \in DOMAIN r.geometries : r.geometries[k] = n THEN << n >>
    ELSE IF \E k \in DOMAIN r.phases : r.phases[k] = n THEN << n >>
    ELSE IF \E k \in DOMAIN r.physics : r.physics[k] = n THEN << n >>
    ELSE << >>

\* obj.__class__.__module__.split('.')[1]
obj_type(obj) ==
    IF obj = NetworkName THEN "Network"
    ELSE IF obj \in GeometryNames THEN "Geometry"
    ELSE IF obj \in PhaseNames THEN "Phases"
    ELSE "Physics"

\* The call ends with an exception.
raise(r) == [r EXCEPT !.last[2] = TRUE]

\* net._geometries.remove(obj)
delete_geometry(r, obj) ==
    IF remove_index(r, r.geometries, obj) = 0 THEN raise(r)
    ELSE [r EXCEPT !.geometries = without_index(@, remove_index(r, r.geometries, obj))]

\* "for physics in phase._physics" from element i of that list on:
\* physics._phase = None, net._physics.remove(physics).
RECURSIVE remove_physics_of(_, _, _)
remove_physics_of(r, list, i) ==
    IF r.last[2] \/ i > Len(list) THEN r
    ELSE IF remove_index(r, r.physics, list[i]) = 0
         THEN raise([r EXCEPT !.physics_phase[list[i]] = NoPhase])
         ELSE remove_physics_of(
                  [r EXCEPT !.physics_phase[list[i]] = NoPhase,
                            !.physics = without_index(@, remove_index(r, r.physics, list[i]))],
                  list, i + 1)

\* net._phases.remove(obj)
remove_phase(r, obj) ==
    IF r.last[2] THEN r
    ELSE IF remove_index(r, r.phases, obj) = 0 THEN raise(r)
    ELSE [r EXCEPT !.phases = without_index(@, remove_index(r, r.phases, obj))]

\* "for phase in net._phases" from element i of the list on; the list is
\* changed while the loop walks it.
RECURSIVE delete_phase(_, _, _)
delete_phase(r, obj, i) ==
    IF r.last[2] \/ i > Len(r.phases) THEN r
    ELSE IF ObjectsEqual(r, r.phases[i], obj)
         THEN delete_phase(
                  remove_phase(remove_physics_of(r, r.phase_physics[r.phases[i]], 1), obj),
                  obj, i + 1)
         ELSE delete_phase(r, obj, i + 1)

\* The first physics of net._physics equal to obj.
first_equal_physics(r, obj) == r.physics[remove_index(r, r.physics, obj)]

\* The Physics branch: at the first physics equal to obj, obj is removed
\* from the _physics of the phases in physics._phase when that attribute
\* is a list of phases (phase_is_list); then net._physcis does not exist and
\* the call ends with an AttributeError.
delete_physics(r, obj, phase_is_list) ==
    IF phase_is_list /\ r.physics_phase[first_equal_physics(r, obj)] # NoPhase
       /\ remove_index(r, r.phase_physics[r.physics_phase[first_equal_physics(r, obj)]], obj) # 0
    THEN raise([r EXCEPT !.phase_physics[r.physics_phase[first_equal_physics(r, obj)]] =
                   without_index(@, remove_index(r, @, obj))])
    ELSE raise(r)

\* delete_object(obj_name=n) called on the network.  The name of an
\* object that is not found leaves obj = [], whose type cannot be read.
delete_object(r, n, phase_is_list) ==
    IF find_object(r, n) = << >> THEN raise(r)
    ELSE IF obj_type(n) = "Geometry" THEN delete_geometry(r, n)
    ELSE IF obj_type(n) = "Phases" THEN delete_phase(r, n, 1)
    ELSE IF obj_type(n) = "Physics" THEN delete_physics(r, n, phase_is_list)
    ELSE r

\* The models: geometries, phases and physics registered in some order, each
\* physics attached to one registered phase.
InitRegistry ==
    /\ Pc_assigned = TRUE
    /\ Pc_entry = [t \in Throats |-> 1]
    /\ inlets = << {0} >>
    /\ outlets = {2, 5}
    /\ end_condition = "breakthrough"
    /\ timing = FALSE
    /\ pc = "model"
    /\ cluster_data = [ flow_rate |-> << >>, haines_pressure |-> << >>,
                        haines_time |-> << >>, vol_coef |-> << >>,
                        cap_volume |-> << >>, pore_volume |-> << >>,
                        haines_throat |-> << >>, active |-> << >>,
                        transform |-> << >> ]
    /\ current_cluster = 0
    /\ Blank
    /\ scan = ScanIdle
    /\ \E geometries \in Arrangements(GeometryNames), phases \in Arrangements(PhaseNames),
          physics \in Arrangements(PhysicsNames), content \in ContentChoices :
          \E owner \in [PhysicsNames -> PhaseNames] :
             /\ \A k \in DOMAIN physics : \E j \in DOMAIN phases : phases[j] = owner[physics[k]]
             /\ \A x \in PhysicsNames :
                    (\A k \in DOMAIN physics : physics[k] # x) => owner[x] = "air"
             /\ registry =
                    [ geometries |-> geometries, phases |-> phases, physics |-> physics,
                      phase_physics |->
                          [ph \in PhaseNames |-> physics_of_phase(physics, owner, ph)],
                      physics_phase |-> owner,
                      content |-> content,
                      last |-> << >> ]

\* net.delete_object(obj_name=n); last holds the name, whether the call ended
\* with an exception, and whether the name was that of a registered object.
DeleteObject(n, phase_is_list) ==
    /\ pc = "model"
    /\ registry' = delete_object(
           [registry EXCEPT !.last = << n, FALSE, find_object(registry, n) # << >> >>],
           n, phase_is_list)
    /\ UNCHANGED << pc, config, results, pore_inv_sat, throat_inv_sat,
                    pore_cluster_final, pore_cluster_original, throat_cluster_final,
                    pore_inv_seq, throat_inv_seq, pore_inv_time, throat_inv_time,
                    cluster_data, tlists, tpoints, tseq, pseq, current_cluster,
                    NewPore, sim_time, condition, brkevent, inv_seq_log,
                    initial_distance, current_distance, percent_complete,
                    rough_complete, scan >>

NextRegistry == \E n \in ObjectNames, phase_is_list \in BOOLEAN : DeleteObject(n, phase_is_list)

SpecRegistry == InitRegistry /\ [][NextRegistry]_vars


(***************************************************************************)
(* Properties                                                              *)
(***************************************************************************)
Range(q) == { q[k] : k \in DOMAIN q }

\* An invasion event is being applied by the step.
IsEvent == pc = "running" /\ condition = 1 /\ tseq' = tseq + 1

\* The cluster that fires the event taken from the current state.
FiringCluster == select_cluster(Self).current_cluster

\* The throat invaded by the event taken from the current state.
FiredThroat == heappop_item(tpoints[FiringCluster])[2]

\* The canonical clusters of the two end pores of throat t.
EndClusters(t) ==
    { cluster_data.transform[pore_cluster_final[find_connected_pores(t)[k]]] : k \in 1 .. 2 }

\* The event taken from the current state is a merge event.
IsMergeEvent ==
    /\ IsEvent
    /\ \A k \in 1 .. 2 : pore_cluster_final[find_connected_pores(FiredThroat)[k]] # 0
    /\ Cardinality(EndClusters(FiredThroat)) = 2

\* Some cluster has been absorbed by another.
SomeMerge == \E c \in DOMAIN cluster_data.transform : cluster_data.transform[c] # c

InvadedPores == {p \in Pores : pore_inv_seq[p] > 0}
InvadedThroats == {t \in Throats : throat_inv_seq[t] > 0}

\* C1 (as stated): the sequence numbers written to pore_inv_seq and
\* throat_inv_seq, in the order of the writes, are 1, 2, 3, ...: strictly
\* increasing from 1, without gaps and without repeats over pores and throats.
C1_StrictlyIncreasing == \A k \in 1 .. Len(inv_seq_log) : inv_seq_log[k] = k

\* C1 (amended): the sequence numbers written, in the order of the writes,
\* start at 1, never decrease and have no gaps; all inlet pores share number
\* 1; each event takes the next number, which goes to the throat it invades
\* and to the pore it invades, if any, so no two throats and no two pores
\* invaded by events share a number; a merge takes no number of its own.
C1_OnePerEvent ==
    /\ inv_seq_log # << >> => inv_seq_log[1] = 1
    /\ \A k \in 1 .. (Len(inv_seq_log) - 1) :
           inv_seq_log[k + 1] \in {inv_seq_log[k], inv_seq_log[k] + 1}
    /\ pc \in {"running", "done"} =>
           /\ \A n \in 2 .. (tseq - 1) :
                  /\ Cardinality({t \in Throats : throat_inv_seq[t] = n}) = 1
                  /\ Cardinality({p \in Pores : pore_inv_seq[p] = n}) <= 1
           /\ \A n \in Range(inv_seq_log) : n < tseq
           /\ {p \in Pores : pore_inv_seq[p] = 1} = UNION Range(inlets)
           /\ \A t \in Throats : throat_inv_seq[t] # 1
           /\ Len(inv_seq_log) = Cardinality(InvadedPores) + Cardinality(InvadedThroats)

\* A finished run with a merge in it and more than five numbers written.
C1_Witness == pc = "done" /\ SomeMerge /\ Len(inv_seq_log) > 5

\* C2: at every event the throat invaded is the least (pressure, id) among
\* the uninvaded throats of the firing cluster's frontier.
C2_LowestThroatFirst ==
    [][IsEvent =>
          \A k \in 1 .. Len(tpoints[FiringCluster]) :
              LET e == tpoints[FiringCluster][k]
              IN  throat_inv_seq[e[2]] = 0 =>
                      ~TupleLt(e, << Pc_entry[FiredThroat], FiredThroat >>)]_vars

\* C3: after a merge event of the canonical clusters a and b, transform maps
\* a, b and every id absorbed into either of them earlier to min(a, b).
C3_MergeToMin ==
    [][IsMergeEvent =>
          LET ab == EndClusters(FiredThroat)
              m == CHOOSE x \in ab : \A y \in ab : x <= y
          IN  \A c \in DOMAIN cluster_data.transform :
                  cluster_data.transform[c] \in ab => cluster_data'.transform[c] = m]_vars

\* Two merges have happened: three original ids resolve to cluster 1.
C3_Witness ==
    /\ pc = "running"
    /\ Len(inlets) = 3
    /\ \A c \in DOMAIN cluster_data.transform : cluster_data.transform[c] = 1

\* C4: the label of every invaded pore and throat is a canonical cluster id,
\* and an absorbed id is no pore label, throat label or value of transform.
C4_LabelsCanonical ==
    pc # "setup" =>
        LET tr == cluster_data.transform
            absorbed == {c \in DOMAIN tr : tr[c] # c}
        IN  /\ \A p \in Pores : pore_cluster_final[p] # 0 =>
                   tr[pore_cluster_final[p]] = pore_cluster_final[p]
            /\ \A t \in Throats : throat_cluster_final[t] # 0 =>
                   tr[throat_cluster_final[t]] = throat_cluster_final[t]
            /\ \A c \in DOMAIN tr : tr[c] \notin absorbed
            /\ \A p \in Pores : pore_cluster_final[p] \notin absorbed
            /\ \A t \in Throats : throat_cluster_final[t] \notin absorbed

\* A pore invaded by a cluster that has been absorbed since.
C4_Witness ==
    \E p \in Pores : pore_cluster_final[p] # 0 /\ pore_cluster_final[p] # pore_cluster_original[p]

invasion_state ==
    << pore_cluster_final, pore_cluster_original, throat_cluster_final,
       pore_inv_seq, throat_inv_seq, pore_inv_time, throat_inv_time,
       cluster_data, tlists, tpoints, tseq, pseq, current_cluster, NewPore,
       sim_time, condition, brkevent >>

\* C5: no active flag goes from 0 to 1, so that the number of active clusters
\* never increases; the run goes on exactly as long as a cluster is active, and
\* once none is no event is applied and the invasion state stays as it is.
C5_ActiveNonIncreasing ==
    [][pc # "setup" =>
          /\ \A c \in DOMAIN cluster_data.active :
                 cluster_data'.active[c] <= cluster_data.active[c]
          /\ sum_active(cluster_data') <= sum_active(cluster_data)
          /\ (condition = 0) = (sum_active(cluster_data) = 0)
          /\ sum_active(cluster_data) = 0 => ~IsEvent /\ UNCHANGED invasion_state]_vars

\* A finished run of several clusters, one of them stopped at an outlet.
C5_Witness ==
    /\ pc = "done"
    /\ Len(inlets) > 1
    /\ sum_active(cluster_data) = 0
    /\ \E p \in outlets : pore_inv_seq[p] > 1


\* Largest sequence number written to a pore or a throat.
max_seq == SetMax(Range(pore_inv_seq) \cup Range(throat_inv_seq))

\* The state a total run ends in: every pore and every throat is invaded,
\* the invaded volume is the total volume, and the cumulative saturation
\* reached, stamped on what was invaded last, is 1 and is the largest stamp.
TotalRunGoal ==
    /\ InvadedPores = Pores
    /\ InvadedThroats = Throats
    /\ SumSet(PoreVolumes, InvadedPores) + SumSet(ThroatVolumes, InvadedThroats) = v_total
    /\ \A p \in Pores : pore_inv_seq[p] = max_seq => pore_inv_sat[p] = v_total
    /\ \A t \in Throats : throat_inv_seq[t] = max_seq => throat_inv_sat[t] = v_total
    /\ SetMax(Range(pore_inv_sat) \cup Range(throat_inv_sat)) = v_total

\* The loop can take its next pass: a cluster is chosen and its heap is not
\* empty.
NextEventDefined == FiringCluster # 0 /\ tpoints[FiringCluster] # << >>

\* C6 (as stated): a total run ends with every pore and every throat invaded
\* and with the saturation reached equal to 1 for the pores and for the
\* throats: the largest pore stamp and the largest throat stamp are both 1.
C6_SaturationOneBoth ==
    end_condition = "total" /\ pc = "done" =>
        /\ InvadedPores = Pores
        /\ InvadedThroats = Throats
        /\ SetMax(Range(pore_inv_sat)) = v_total
        /\ SetMax(Range(throat_inv_sat)) = v_total

\* C6 (amended): with end_condition = 'total' (the lattice is connected and
\* every inlet group borders a throat) the run terminates: every step either
\* is an event, which advances tseq, or moves on from the setup or to the
\* end, tseq stays within one event per throat, and the next event is defined
\* as long as the loop runs; and the run ends with every pore and throat
\* invaded and the invaded volume equal to the total volume: the cumulative
\* saturation 1 is stamped on what the last event invaded and no stamp is
\* larger (the pores carry it only if the last event invaded a pore).
C6_TotalRunCompletes ==
    /\ [][end_condition = "total" =>
             /\ tseq' > tseq \/ (pc = "running" /\ pc' = "done")
             /\ tseq' <= Cardinality(Throats) + 2
             /\ pc' = "running" /\ condition' = 1 => NextEventDefined']_vars
    /\ [](end_condition = "total" /\ pc = "done" => TotalRunGoal)

\* A finished total run in which clusters merged, everything is invaded and
\* the last events invaded throats only, so that no pore stamp reaches 1.
C6_Witness ==
    /\ pc = "done"
    /\ end_condition = "total"
    /\ SomeMerge
    /\ InvadedPores = Pores
    /\ InvadedThroats = Throats
    /\ \E t \in Throats : throat_inv_sat[t] = v_total
    /\ \A p \in Pores : pore_inv_sat[p] < v_total

\* C7: in breakthrough mode with a single inlet cluster, the event in which
\* the cluster invades an outlet pore ends the run (no cluster is active and
\* _condition is 0), and once the run has ended no pore or throat is invaded
\* or relabelled: what was not reached keeps inv_seq = 0.
C7_StopsAtBreakthrough ==
    [][end_condition = "breakthrough" /\ Len(inlets) = 1 =>
          /\ IsEvent /\ NewPore' \in outlets =>
                 condition' = 0 /\ sum_active(cluster_data') = 0
          /\ pc # "setup" /\ condition = 0 =>
                 UNCHANGED << pore_inv_seq, throat_inv_seq, pore_cluster_final,
                              throat_cluster_final, tseq >>]_vars

\* A finished breakthrough run of one cluster that reached an outlet pore and
\* left a pore and a throat uninvaded.
C7_Witness ==
    /\ pc = "done"
    /\ end_condition = "breakthrough"
    /\ Len(inlets) = 1
    /\ NewPore \in outlets
    /\ \E p \in Pores : pore_inv_seq[p] = 0
    /\ \E t \in Throats : throat_inv_seq[t] = 0

\* C8: no throat occurs twice in the frontier queue of a cluster.
C8_FrontierNoDuplicates ==
    \A c \in DOMAIN tpoints :
        \A i, j \in 1 .. Len(tpoints[c]) :
            i # j => tpoints[c][i][2] # tpoints[c][j][2]

\* C9: after update_results(IPseq = max_seq) on a finished run, the invaded
\* masks are those update_results(IPsat = 1.0) produces.
C9_SeqSatRoundTrip ==
    pc = "done" /\ last_query = << max_seq, None >> =>
        /\ pore_invaded = invaded_masks(None, v_total).pore
        /\ throat_invaded = invaded_masks(None, v_total).throat

\* C10: in breakthrough mode, from the setup on, every cluster owning an
\* invaded outlet pore is inactive (with the sentinel haines_time when timing
\* is on), and the run has ended exactly when no cluster is active.
C10_OutletClustersInactive ==
    end_condition = "breakthrough" /\ pc # "setup" =>
        /\ \A p \in outlets : pore_cluster_final[p] # 0 =>
               /\ cluster_data.active[pore_cluster_final[p]] = 0
               /\ timing => cluster_data.haines_time[pore_cluster_final[p]] = HainesSentinel
        /\ (condition = 0) = (sum_active(cluster_data) = 0)

\* C11: in total mode an event that invades an outlet pore appends the pore
\* to the breakthrough event log (and no other event changes the log) and
\* leaves its cluster active unless the frontier is exhausted; a cluster
\* that goes from active to inactive was absorbed in a merge or has an empty
\* frontier.
C11_TotalLogsOutlets ==
    [][end_condition = "total" /\ IsEvent =>
          /\ brkevent' = IF NewPore' \in outlets
                         THEN Append(brkevent, NewPore') ELSE brkevent
          /\ NewPore' \in outlets /\ tpoints'[current_cluster'] # << >> =>
                 cluster_data'.active[current_cluster'] = 1
          /\ \A c \in DOMAIN cluster_data.active :
                 cluster_data.active[c] = 1 /\ cluster_data'.active[c] = 0 =>
                     cluster_data'.transform[c] # c \/ tpoints'[c] = << >>]_vars

\* A finished total run of one cluster that logged an outlet pore and
\* invaded another pore after it.
C11_Witness ==
    /\ pc = "done"
    /\ end_condition = "total"
    /\ Len(inlets) = 1
    /\ \E k \in 1 .. Len(brkevent) : \E q \in Pores :
           pore_inv_seq[q] > pore_inv_seq[brkevent[k]]

\* C12: a merge event joining two clusters of which one is inactive leaves
\* both inactive, with the sentinel haines_time when timing is on; and the
\* survivor never fires again: no event is fired by an inactive cluster and
\* no inactive cluster becomes active.
C12_MergeWithInactive ==
    [][IsEvent =>
          /\ cluster_data.active[FiringCluster] = 1
          /\ \A c \in DOMAIN cluster_data.active :
                 cluster_data.active[c] = 0 => cluster_data'.active[c] = 0
          /\ IsMergeEvent
                 /\ (\E c \in EndClusters(FiredThroat) : cluster_data.active[c] = 0) =>
                 \A c \in EndClusters(FiredThroat) :
                     /\ cluster_data'.active[c] = 0
                     /\ timing => cluster_data'.haines_time[c] = HainesSentinel]_vars

\* A finished breakthrough run of two clusters: one reached an outlet pore
\* by an event, and the last event, a throat-only one, merged the other
\* into it, which left no cluster active.
C12_Witness ==
    /\ pc = "done"
    /\ end_condition = "breakthrough"
    /\ Len(inlets) = 2
    /\ SomeMerge
    /\ sum_active(cluster_data) = 0
    /\ \E p \in outlets : pore_inv_seq[p] > 1
    /\ \A p \in Pores : pore_inv_seq[p] < max_seq

\* The cluster with the least haines_time of the current state, the lowest
\* id on a tie.
LeastTimeCluster ==
    CHOOSE c \in DOMAIN cluster_data.haines_time :
        \A d \in DOMAIN cluster_data.haines_time :
            \/ cluster_data.haines_time[c] < cluster_data.haines_time[d]
            \/ cluster_data.haines_time[c] = cluster_data.haines_time[d] /\ c <= d

\* C13: with timing on, the throat invaded by an event is the one on top of
\* the heap of the cluster with the least haines_time, the lowest id on a
\* tie, and the clock is that least haines_time when the event is applied:
\* it is the inv_time of the throat and of the pore invaded, and sim_time
\* after the event.
C13_EarliestClusterFires ==
    [][timing /\ IsEvent =>
          LET c == LeastTimeCluster
              t == tpoints[c][1][2]
              least == cluster_data.haines_time[c]
          IN  /\ throat_inv_seq[t] = 0
              /\ throat_inv_seq'[t] = tseq
              /\ throat_inv_time'[t] = least
              /\ sim_time' = least
              /\ \A u \in Throats \ {t} : throat_inv_seq'[u] = throat_inv_seq[u]
              /\ \A p \in Pores :
                     pore_inv_seq'[p] # pore_inv_seq[p] => pore_inv_time'[p] = least]_vars

\* A timed run in which events have fired, the clock has moved and two
\* active clusters with different throats on top of their heaps are tied for
\* the least haines_time.
C13_Witness ==
    /\ timing
    /\ pc = "running"
    /\ condition = 1
    /\ tseq > 2
    /\ sim_time > 0
    /\ \E c, d \in DOMAIN cluster_data.haines_time :
           /\ c # d
           /\ cluster_data.active[c] = 1 /\ cluster_data.active[d] = 1
           /\ cluster_data.haines_time[c] = cluster_data.haines_time[d]
           /\ tpoints[c][1] # tpoints[d][1]
           /\ \A e \in DOMAIN cluster_data.haines_time :
                  cluster_data.haines_time[c] <= cluster_data.haines_time[e]

\* C14: with timing on, the clock never decreases from one event to the
\* next and after an event no cluster's haines_time is before the clock (a
\* recomputed haines_time below the clock is raised to it); so the inv_time
\* of the invaded pores and throats is non-decreasing in their inv_seq.
C14_ClockMonotone ==
    /\ [][timing /\ IsEvent =>
             /\ sim_time' >= sim_time
             /\ \A c \in DOMAIN cluster_data'.haines_time :
                    cluster_data'.haines_time[c] >= sim_time']_vars
    /\ [](timing /\ pc # "setup" =>
             /\ \A p, q \in InvadedPores :
                    pore_inv_seq[p] <= pore_inv_seq[q] => pore_inv_time[p] <= pore_inv_time[q]
             /\ \A t, u \in InvadedThroats :
                    throat_inv_seq[t] <= throat_inv_seq[u] =>
                        throat_inv_time[t] <= throat_inv_time[u]
             /\ \A p \in InvadedPores : \A t \in InvadedThroats :
                    /\ pore_inv_seq[p] <= throat_inv_seq[t] =>
                           pore_inv_time[p] <= throat_inv_time[t]
                    /\ throat_inv_seq[t] <= pore_inv_seq[p] =>
                           throat_inv_time[t] <= pore_inv_time[p])

\* A timed run in which the haines_time recomputed for an active cluster
\* fell below the clock and was raised to it, the clock having moved.
C14_Witness ==
    /\ timing
    /\ pc = "running"
    /\ sim_time > 0
    /\ \E c \in DOMAIN cluster_data.haines_time :
           /\ cluster_data.active[c] = 1
           /\ cluster_data.haines_time[c] = sim_time
           /\ haines_time_of(cluster_data, c) < sim_time

\* Volume of the pores and throats invaded with a sequence number up to n.
VolumeUpTo(n) ==
    SumSet(PoreVolumes, {p \in Pores : pore_inv_seq[p] > 0 /\ pore_inv_seq[p] <= n})
    + SumSet(ThroatVolumes, {t \in Throats : throat_inv_seq[t] > 0 /\ throat_inv_seq[t] <= n})

\* C15: after the saturation pass every invaded pore and throat with
\* sequence number n carries the volume invaded up to n over the total
\* volume (numerators over v_total here), so the stamps are non-decreasing
\* in the sequence number.
C15_CumulativeSaturation ==
    pc = "done" =>
        /\ \A p \in InvadedPores : pore_inv_sat[p] = VolumeUpTo(pore_inv_seq[p])
        /\ \A t \in InvadedThroats : throat_inv_sat[t] = VolumeUpTo(throat_inv_seq[t])
        /\ \A p, q \in InvadedPores :
               pore_inv_seq[p] <= pore_inv_seq[q] => pore_inv_sat[p] <= pore_inv_sat[q]
        /\ \A t, u \in InvadedThroats :
               throat_inv_seq[t] <= throat_inv_seq[u] => throat_inv_sat[t] <= throat_inv_sat[u]
        /\ \A p \in InvadedPores : \A t \in InvadedThroats :
               pore_inv_seq[p] <= throat_inv_seq[t] => pore_inv_sat[p] <= throat_inv_sat[t]

\* A finished run with at least four different stamps on invaded pores and
\* a throat of non-zero volume stamped below 1.
C15_Witness ==
    /\ pc = "done"
    /\ Cardinality({pore_inv_sat[p] : p \in InvadedPores}) >= 4
    /\ \E t \in InvadedThroats : ThroatVolumes[t] > 0 /\ throat_inv_sat[t] < v_total

\* Every pore and every throat has been invaded with a number up to n.
AllInvadedBy(n) ==
    /\ \A p \in Pores : pore_inv_seq[p] > 0 /\ pore_inv_seq[p] <= n
    /\ \A t \in Throats : throat_inv_seq[t] > 0 /\ throat_inv_seq[t] <= n

\* C16: after a run no inv_sat is above 1 (v_total as a numerator), and a
\* pore or throat carries 1 only if every pore and throat had been invaded
\* by the sequence number at which it was stamped; so after a breakthrough
\* run that leaves part of the network uninvaded nothing carries 1.
C16_SaturationOneOnlyWhenFull ==
    pc = "done" =>
        /\ \A p \in Pores :
               /\ pore_inv_sat[p] <= v_total
               /\ pore_inv_sat[p] = v_total => AllInvadedBy(pore_inv_seq[p])
        /\ \A t \in Throats :
               /\ throat_inv_sat[t] <= v_total
               /\ throat_inv_sat[t] = v_total => AllInvadedBy(throat_inv_seq[t])

\* C17: after update_results with the sequence cutoff n, the invaded masks
\* hold exactly the pores and throats with 0 < inv_seq <= n, and the
\* defended masks are the complements of the invaded masks.
C17_SequenceCutoffMasks ==
    last_query # << >> /\ last_query[1] # None =>
        /\ \A p \in Pores :
               /\ pore_invaded[p] = (pore_inv_seq[p] > 0 /\ pore_inv_seq[p] <= last_query[1])
               /\ pore_defended[p] = ~pore_invaded[p]
        /\ \A t \in Throats :
               /\ throat_invaded[t] = (throat_inv_seq[t] > 0 /\ throat_inv_seq[t] <= last_query[1])
               /\ throat_defended[t] = ~throat_invaded[t]

\* update_results was called with a cutoff that separates invaded pores and
\* throats, on a run that left a pore and a throat uninvaded.
C17_Witness ==
    /\ last_query # << >>
    /\ last_query[1] # None
    /\ \E p, q \in InvadedPores : pore_inv_seq[p] <= last_query[1] /\ pore_inv_seq[q] > last_query[1]
    /\ \E t, u \in InvadedThroats :
           throat_inv_seq[t] <= last_query[1] /\ throat_inv_seq[u] > last_query[1]
    /\ InvadedPores # Pores
    /\ InvadedThroats # Throats

\* C18: when the centroid of the inlets and the centroid of the outlets
\* coincide (initial_distance = 0), a breakthrough run never holds the
\* result of a division by zero as its progress: the progress is 100%
\* from the setup on.
C18_ZeroDistanceProgress ==
    pc \in {"running", "done"} /\ end_condition = "breakthrough" /\ initial_distance = 0 =>
        percent_complete = 1000

\* C19: a run whose invading phase has no capillary pressure fails before
\* any invasion state is initialised and before any invasion event is
\* applied: it never gets to run, and when it has failed no cluster storage
\* exists and no pore or throat is labelled or numbered.
C19_FailsBeforeInitialisation ==
    /\ ~Pc_assigned => pc \in {"setup", "failed"}
    /\ pc = "failed" =>
           /\ cluster_data.active = << >>
           /\ inv_seq_log = << >>
           /\ \A p \in Pores : pore_inv_seq[p] = 0 /\ pore_cluster_final[p] = 0
           /\ \A t \in Throats : throat_inv_seq[t] = 0 /\ throat_cluster_final[t] = 0

\* C20: in untimed mode, once the scan for the next cluster has gone round
\* without finding an active cluster and has reported that no cluster is
\* active, it has stopped: it is not left scanning.
C20_ScanStopsWithError ==
    scan.started /\ scan.error => scan.condition # 0

\* C21: after delete_object(obj_name=n) for the name n of a registered
\* Geometry, Phase or Physics, find_object(obj_name=n) returns the empty
\* list.
C21_DeletedNotFound ==
    registry.last # << >> /\ registry.last[3] =>
        find_object(registry, registry.last[1]) = << >>

\* heap[k] >= heap[(k-1)//2] for every k: the invariant of heapq, on indices
\* from 1.
IsHeap(heap) == \A k \in 2 .. Len(heap) : ~TupleLt(heap[k], heap[k \div 2])

\* The pair << survivor, absorbed >> of the merge event taken from the
\* current state.
MergePair ==
    << CHOOSE x \in EndClusters(FiredThroat) : \A y \in EndClusters(FiredThroat) : x <= y,
       CHOOSE x \in EndClusters(FiredThroat) : \A y \in EndClusters(FiredThroat) : x >= y >>

\* C22: after a merge event the frontier of the absorbed cluster is empty,
\* and the frontier of the survivor holds entries of the two frontiers only,
\* holds each of their entries whose throat is not invaded, and satisfies
\* the heap invariant.
C22_MergedFrontierIsHeap ==
    [][IsMergeEvent =>
          /\ tpoints'[MergePair[2]] = << >>
          /\ Range(tpoints'[MergePair[1]]) \subseteq
                 Range(tpoints[MergePair[1]]) \cup Range(tpoints[MergePair[2]])
          /\ \A e \in Range(tpoints[MergePair[1]]) \cup Range(tpoints[MergePair[2]]) :
                 throat_inv_seq'[e[2]] = 0 => e \in Range(tpoints'[MergePair[1]])
          /\ IsHeap(tpoints'[MergePair[1]])]_vars

\* The number of clusters a cyclic scan from current_cluster + 1 passes
\* before it is at cluster c.
ScanDistance(c) == (c - current_cluster - 1) % Len(inlets)

\* The first active cluster in the cyclic order from current_cluster + 1.
CyclicFirstActive ==
    CHOOSE c \in DOMAIN cluster_data.active :
        /\ cluster_data.active[c] = 1
        /\ \A d \in DOMAIN cluster_data.active :
               cluster_data.active[d] = 1 => ScanDistance(c) <= ScanDistance(d)

\* C23: in untimed mode the cluster that fires an event is the first active
\* cluster met in the cyclic order from current_cluster + 1 (current_cluster
\* being 0 before the first event and the id the last event ended on
\* afterwards); it is active, and the throat on top of its frontier is the
\* one that takes the number of the event.
C23_RoundRobinChoice ==
    [][IsEvent /\ ~timing =>
          /\ FiringCluster = CyclicFirstActive
          /\ cluster_data.active[FiringCluster] = 1
          /\ throat_inv_seq'[heappop_item(tpoints[CyclicFirstActive])[2]] = tseq]_vars

\* An untimed run of three clusters, some events made: the next scan passes
\* an inactive cluster and wraps from the last cluster to the first.
C23_Witness ==
    /\ pc = "running" /\ condition = 1 /\ ~timing
    /\ Len(inlets) = 3
    /\ tseq > 3
    /\ CyclicFirstActive <= current_cluster
    /\ \E d \in DOMAIN cluster_data.active :
           cluster_data.active[d] = 0 /\ ScanDistance(d) < ScanDistance(CyclicFirstActive)

FrontierThroats(c) == { e[2] : e \in Range(tpoints[c]) }

\* The sum of the volume coefficients of the uninvaded throats of the
\* frontier of cluster c, each throat once.
FrontierCoefSum(c) ==
    SumSet([t \in Throats |-> Tvol_coef(Self, t)],
           {t \in FrontierThroats(c) : throat_inv_seq[t] = 0})

\* C25: with timing on, after every event the vol_coef of each canonical
\* cluster is the sum of the volume coefficients of the throats in its
\* frontier, each throat counted once and invaded throats not counted.
C25_VolCoefIsFrontierSum ==
    timing /\ pc \in {"running", "done"} /\ tseq > 2 =>
        \A c \in DOMAIN cluster_data.transform :
            cluster_data.transform[c] = c =>
                cluster_data.vol_coef[c] = FrontierCoefSum(c)

\* C26: with timing on, in every state of the run a cluster is inactive if
\* and only if its haines_time is the sentinel, and the cluster that fires
\* an event is active when it is selected.
C26_InactiveIffSentinel ==
    /\ [][timing /\ IsEvent =>
             /\ cluster_data.active[FiringCluster] = 1
             /\ cluster_data.haines_time[FiringCluster] # HainesSentinel]_vars
    /\ [](timing /\ pc \in {"running", "done"} =>
             \A c \in DOMAIN cluster_data.active :
                 cluster_data.active[c] = 0 <=>
                     cluster_data.haines_time[c] = HainesSentinel)

\* Between two events of a timed run: a cluster stopped at an outlet pore
\* (not absorbed by a merge) has the sentinel, another one is still active.
C26_Witness ==
    /\ timing
    /\ pc = "running"
    /\ condition = 1
    /\ tseq > 2
    /\ \E c, d \in DOMAIN cluster_data.active :
           /\ cluster_data.transform[c] = c
           /\ cluster_data.active[c] = 0
           /\ cluster_data.haines_time[c] = HainesSentinel
           /\ tpoints[c] # << >>
           /\ cluster_data.active[d] = 1
           /\ cluster_data.haines_time[d] < HainesSentinel

\* The state _do_outer_iteration_stage is in between the setup and the
\* first event.
AfterSetup == pc = "running" /\ tseq = 2

\* The throat of S with the least (pressure, id).
LeastThroat(S) ==
    CHOOSE t \in S : \A u \in S : ~TupleLt(<< Pc_entry[u], u >>, << Pc_entry[t], t >>)

\* C27: after the setup, for each inlet group k: its pores have
\* cluster_final = cluster_original = k, inv_seq = 1 and, with timing on,
\* inv_time = 0; the frontier of cluster k holds exactly the throats
\* neighbouring those pores, each once; haines_throat is the frontier throat
\* with the least (pressure, id); every cluster is active; no throat is
\* invaded.
C27_SetupState ==
    AfterSetup =>
        /\ InvadedThroats = {}
        /\ \A t \in Throats : throat_cluster_final[t] = 0
        /\ \A k \in 1 .. Len(inlets) :
               /\ \A p \in inlets[k] :
                      /\ pore_cluster_final[p] = k
                      /\ pore_cluster_original[p] = k
                      /\ pore_inv_seq[p] = 1
                      /\ timing => pore_inv_time[p] = 0
               /\ FrontierThroats(k) = Range(find_neighbor_throats(inlets[k]))
               /\ Len(tpoints[k]) = Cardinality(FrontierThroats(k))
               /\ \A e \in Range(tpoints[k]) : e[1] = Pc_entry[e[2]]
               /\ cluster_data.haines_throat[k] = LeastThroat(FrontierThroats(k))
               /\ cluster_data.active[k] = 1

\* After the setup of several clusters, one of them an inlet group whose
\* cheapest throat is not its lowest-numbered one.
C27_Witness ==
    /\ AfterSetup
    /\ Len(inlets) > 1
    /\ \E k \in 1 .. Len(inlets) :
           cluster_data.haines_throat[k] # find_neighbor_throats(inlets[k])[1]

\* The uninvaded end pores of throat t.
UninvadedEnds(t) ==
    { find_connected_pores(t)[k] : k \in 1 .. 2 } \cap {p \in Pores : pore_cluster_final[p] = 0}

\* The event taken from the current state invades a pore.
IsNewPoreEvent == IsEvent /\ Cardinality(UninvadedEnds(FiredThroat)) = 1

\* The pore invaded by the event taken from the current state.
EventNewPore == CHOOSE p \in UninvadedEnds(FiredThroat) : TRUE

\* The number of entries of throat j in a frontier heap.
Count(heap, j) == Cardinality({k \in DOMAIN heap : heap[k][2] = j})

\* C28: when the invaded throat has exactly one uninvaded end pore, the pore
\* gets the firing cluster's id as cluster_final and cluster_original and
\* the sequence number and (timing on) the time of the throat; the throat is
\* labelled with the firing cluster's id; and each throat neighbouring the
\* new pore is pushed into the cluster's frontier, with its pressure, if
\* and only if the cluster does not already track it.
C28_NewPoreEvent ==
    [][IsNewPoreEvent =>
          /\ pore_cluster_final'[EventNewPore] = FiringCluster
          /\ pore_cluster_original'[EventNewPore] = FiringCluster
          /\ pore_inv_seq'[EventNewPore] = tseq
          /\ throat_inv_seq'[FiredThroat] = tseq
          /\ timing => pore_inv_time'[EventNewPore] = throat_inv_time'[FiredThroat]
          /\ throat_cluster_final'[FiredThroat] = FiringCluster
          /\ NewPore' = EventNewPore
          /\ current_cluster' = FiringCluster
          /\ \A j \in Range(find_neighbor_throats({EventNewPore})) :
                 /\ Count(tpoints'[FiringCluster], j) =
                        IF InSeq(j, tlists[FiringCluster])
                        THEN Count(heappop_rest(tpoints[FiringCluster]), j)
                        ELSE 1
                 /\ InSeq(j, tlists'[FiringCluster])
                 /\ \A e \in Range(tpoints'[FiringCluster]) :
                        e[2] = j => e[1] = Pc_entry[j]]_vars

\* After an event that invaded a pore with a neighbouring throat the
\* cluster already tracked (its other end is a pore of the cluster; it has
\* one entry in the frontier) and one it did not track (its other end is
\* uninvaded).
C28_Witness ==
    /\ pc = "running"
    /\ tseq > 2
    /\ NewPore # -1
    /\ pore_inv_seq[NewPore] = tseq - 1
    /\ \E j, u \in Range(find_neighbor_throats({NewPore})) :
           /\ throat_inv_seq[j] = 0
           /\ UninvadedEnds(j) = {}
           /\ \A k \in 1 .. 2 : pore_cluster_final[find_connected_pores(j)[k]] = current_cluster
           /\ Count(tpoints[current_cluster], j) = 1
           /\ throat_inv_seq[u] = 0
           /\ UninvadedEnds(u) # {}
           /\ Count(tpoints[current_cluster], u) = 1

\* The step applies an event whose throat has both end pores invaded.
IsThroatOnlyEvent ==
    pc = "running" /\ condition = 1 /\ vars' # vars /\ UninvadedEnds(FiredThroat) = {}

\* The smaller of the canonical clusters of the end pores of throat t.
SmallerEndCluster(t) ==
    CHOOSE c \in EndClusters(t) : \A d \in EndClusters(t) : c <= d

\* C29: when the invaded throat has both end pores already invaded, no
\* pore's inv_seq, inv_time or cluster_original changes and no pore becomes
\* invaded; the throat is labelled with the smaller of the canonical
\* cluster ids of its two pores; and the event, a merge included, advances
\* the sequence counter by exactly one.
C29_ThroatOnlyEvent ==
    [][IsThroatOnlyEvent =>
          /\ pore_inv_seq' = pore_inv_seq
          /\ pore_inv_time' = pore_inv_time
          /\ pore_cluster_original' = pore_cluster_original
          /\ \A p \in Pores : pore_cluster_final'[p] # 0 <=> pore_cluster_final[p] # 0
          /\ NewPore' = -1
          /\ throat_cluster_final'[FiredThroat] = SmallerEndCluster(FiredThroat)
          /\ throat_inv_seq'[FiredThroat] = tseq
          /\ tseq' = tseq + 1
          /\ pseq' = pseq]_vars

\* After a throat-only event that merged clusters: the throat joins pores
\* that started in clusters 2 and 3 and is labelled 1, the canonical cluster
\* of one of them.
C29_Witness ==
    /\ pc = "running"
    /\ NewPore = -1
    /\ tseq > 3
    /\ \E t \in Throats :
           /\ throat_inv_seq[t] = tseq - 1
           /\ { pore_cluster_original[find_connected_pores(t)[k]] : k \in 1 .. 2 } = {2, 3}
           /\ throat_cluster_final[t] = 1
           /\ \A c \in DOMAIN cluster_data.transform : cluster_data.transform[c] = 1

\* max(a, b)
Later(a, b) == IF a >= b THEN a ELSE b

\* C30: with timing on, after an event that leaves the current cluster
\* active, the cluster's haines_throat and haines_pressure are those of the
\* top entry of its cleaned frontier (an uninvaded throat), cap_volume is
\* haines_pressure times vol_coef, the flow rate is positive and haines_time
\* is the later of the clock and (pore_volume + cap_volume) / flow_rate.
C30_NextHainesJump ==
    [][timing /\ IsEvent /\ cluster_data'.active[current_cluster'] = 1 =>
          /\ tpoints'[current_cluster'] # << >>
          /\ throat_inv_seq'[tpoints'[current_cluster'][1][2]] = 0
          /\ cluster_data'.haines_throat[current_cluster'] = tpoints'[current_cluster'][1][2]
          /\ cluster_data'.haines_pressure[current_cluster'] = tpoints'[current_cluster'][1][1]
          /\ cluster_data'.cap_volume[current_cluster'] =
                 cluster_data'.haines_pressure[current_cluster']
                     * cluster_data'.vol_coef[current_cluster']
          /\ cluster_data'.flow_rate[current_cluster'] > 0
          /\ cluster_data'.haines_time[current_cluster'] =
                 Later(sim_time', haines_time_of(cluster_data', current_cluster'))]_vars

\* After a timed event that left the current cluster active: a cluster of
\* two merged inlet clusters (flow rate 2) whose next throat has pressure 2
\* and whose next jump is after the clock.
C30_Witness ==
    /\ timing
    /\ pc = "running"
    /\ tseq > 2
    /\ current_cluster > 0
    /\ cluster_data.active[current_cluster] = 1
    /\ cluster_data.flow_rate[current_cluster] = 2 * inlet_flow
    /\ cluster_data.haines_pressure[current_cluster] = 2
    /\ cluster_data.cap_volume[current_cluster] = 2 * cluster_data.vol_coef[current_cluster]
    /\ cluster_data.haines_time[current_cluster] > sim_time
    /\ cluster_data.haines_time[current_cluster] = haines_time_of(cluster_data, current_cluster)

\* C31: in untimed mode the cyclic scan is started (the loop of
\* _do_outer_iteration_stage goes on, condition = 1) only in states where
\* some cluster is active, and the cluster it stops at is met before the
\* scan has come round to where it started.
C31_ScanStartsWithActive ==
    /\ [][~timing /\ pc = "running" /\ condition = 1 /\ vars' # vars =>
             /\ next_active_cluster(Self) # 0
             /\ ScanDistance(next_active_cluster(Self)) < Len(inlets)
             /\ current_cluster' # 0]_vars
    /\ [](~timing /\ pc = "running" /\ condition = 1 =>
             \E c \in DOMAIN cluster_data.active : cluster_data.active[c] = 1)

\* An untimed run of three clusters about to scan with a single active
\* cluster left, the last one the scan comes to.
C31_Witness ==
    /\ ~timing
    /\ pc = "running"
    /\ condition = 1
    /\ tseq > 2
    /\ Len(inlets) = 3
    /\ Cardinality({c \in DOMAIN cluster_data.active : cluster_data.active[c] = 1}) = 1
    /\ ScanDistance(CyclicFirstActive) = Len(inlets) - 1

\* C32: for every invaded pore, pore_cluster_final is transform applied once
\* to pore_cluster_original; the original cluster of an invaded pore is
\* never changed; and transform maps every id to an id no larger than
\* itself which transform maps to itself.
C32_TransformOfOriginal ==
    /\ [][pc = "running" =>
             \A p \in Pores : pore_cluster_final[p] # 0 =>
                 pore_cluster_original'[p] = pore_cluster_original[p]]_vars
    /\ [](pc \in {"running", "done"} =>
             /\ \A p \in Pores :
                    /\ pore_cluster_final[p] # 0 =>
                           /\ pore_cluster_original[p] \in DOMAIN cluster_data.transform
                           /\ pore_cluster_final[p] =
                                  cluster_data.transform[pore_cluster_original[p]]
                    /\ pore_cluster_final[p] = 0 => pore_cluster_original[p] = 0
             /\ \A c \in DOMAIN cluster_data.transform :
                    /\ cluster_data.transform[c] <= c
                    /\ cluster_data.transform[c] >= 1
                    /\ cluster_data.transform[cluster_data.transform[c]] =
                           cluster_data.transform[c])

\* Three clusters merged into one that has invaded a pore since: pores that
\* started in clusters 1, 2 and 3 all carry the label 1.
C32_Witness ==
    /\ pc = "running"
    /\ Len(inlets) = 3
    /\ \A c \in 1 .. 3 :
           /\ cluster_data.transform[c] = 1
           /\ \E p \in Pores : pore_cluster_original[p] = c /\ pore_cluster_final[p] = 1
    /\ \E p \in Pores : pore_cluster_original[p] = 1 /\ pore_inv_seq[p] > 3

\* C33: whenever a cluster is selected to fire, its frontier is not empty
\* and the throat of its top entry has not been invaded by any cluster, so
\* the pop succeeds; no step changes the inv_seq of an invaded throat; and
\* between events the frontier of every active cluster is non-empty with an
\* uninvaded throat on top.
C33_PopNeverFails ==
    /\ [][pc = "running" /\ condition = 1 /\ vars' # vars =>
             /\ FiringCluster \in DOMAIN tpoints
             /\ tpoints[FiringCluster] # << >>
             /\ throat_inv_seq[tpoints[FiringCluster][1][2]] = 0
             /\ throat_cluster_final[tpoints[FiringCluster][1][2]] = 0
             /\ heappop_item(tpoints[FiringCluster]) = tpoints[FiringCluster][1]
             /\ \A t \in Throats : throat_inv_seq[t] # 0 => throat_inv_seq'[t] = throat_inv_seq[t]
             /\ Cardinality({t \in Throats : throat_inv_seq'[t] # 0})
                    = Cardinality({t \in Throats : throat_inv_seq[t] # 0}) + 1]_vars
    /\ [](pc = "running" /\ condition = 1 =>
             \A c \in DOMAIN cluster_data.active :
                 cluster_data.active[c] = 1 =>
                     /\ tpoints[c] # << >>
                     /\ throat_inv_seq[tpoints[c][1][2]] = 0)

\* A cluster about to fire whose frontier holds an entry of an invaded
\* throat below the top, left there by a merge.
C33_Witness ==
    /\ pc = "running"
    /\ condition = 1
    /\ tseq > 2
    /\ cluster_data.active[FiringCluster] = 1
    /\ throat_inv_seq[tpoints[FiringCluster][1][2]] = 0
    /\ \E e \in Range(tpoints[FiringCluster]) : throat_inv_seq[e[2]] # 0

TotalCount(tp, j) ==
    Cardinality({ ck \in (DOMAIN tp) \X (1 .. (2 * Cardinality(Throats))) :
                    ck[2] \in DOMAIN tp[ck[1]] /\ tp[ck[1]][ck[2]][2] = j })

\* C35: with either end condition and timing on or off the event loop ends
\* (condition becomes 0) and run() returns.  Every event takes an entry of
\* the invaded throat out of the frontiers; a throat gets a new entry only
\* in the firing cluster and only if that cluster did not track it, and a
\* throat tracked by a cluster stays tracked by the cluster it is merged
\* into; the event counter stays within one event per throat; while the
\* loop goes on the next event is defined; and every step moves the program
\* on or is an event.
C35_Terminates ==
    /\ [][ProgramStep]_vars
    /\ [][pc = "running" /\ condition = 1 /\ vars' # vars =>
             /\ TotalCount(tpoints', FiredThroat) < TotalCount(tpoints, FiredThroat)
             /\ \A j \in Throats :
                    /\ TotalCount(tpoints', j) <= TotalCount(tpoints, j) + 1
                    /\ TotalCount(tpoints', j) > TotalCount(tpoints, j) =>
                           /\ ~InSeq(j, tlists[FiringCluster])
                           /\ InSeq(j, tlists'[FiringCluster])
                    /\ \A c \in DOMAIN tlists :
                           InSeq(j, tlists[c]) => InSeq(j, tlists'[cluster_data'.transform[c]])
             /\ tseq' = tseq + 1
             /\ tseq' <= Cardinality(Throats) + 2
             /\ pc' = "running" /\ condition' = 1 => NextEventDefined']_vars
    /\ (pc = "running" /\ condition = 1) ~> (pc = "running" /\ condition = 0)
    /\ (pc = "setup" /\ Pc_assigned) ~> (pc = "done")

\* Finished runs of three clusters, one for each end condition and timing,
\* are covered by the state: a run that has ended after the largest number
\* of events, every throat invaded.
C35_Witness ==
    /\ pc = "done"
    /\ condition = 0
    /\ tseq = Cardinality(Throats) + 2
    /\ Len(inlets) = 3
====
